---------------------------- MODULE Spec2Model ----------------------------
(***************************************************************************)
(* A model of pylatexenc's LatexWalker (src/pylatexenc/latexwalker.py):    *)
(* the tokenizer get_token as an operator over the source string, and the  *)
(* recursive-descent parser (get_latex_nodes, get_latex_braced_group,      *)
(* get_latex_environment, get_latex_expression,                            *)
(* get_latex_maybe_optional_arg and the argument parsers they call) as a   *)
(* machine over an explicit call stack: one frame per active Python call,  *)
(* an exception or a return value in flight between two frames.            *)
(*                                                                         *)
(* The source string s is a sequence of one-character strings; Python's    *)
(* 0-based s[i] is s[i + 1] here.  Python's None is the empty sequence.    *)
(***************************************************************************)
EXTENDS Integers, Sequences, FiniteSets, TLC

VARIABLES
    s,                 \* LatexWalker.s, the string being parsed
    tolerant_parsing,  \* LatexWalker.tolerant_parsing
    strict_braces,     \* LatexWalker.strict_braces (overridden by _PushPropOverride)
    stack,             \* the active calls, outermost first
    ret,               \* the value a call just returned, <<>> when none is in flight
    exc,               \* the exception being raised, <<>> when none is in flight
    status,            \* "idle", "running", "returned" or "raised"
    call               \* the method the walker's caller called, and its arguments

vars == <<s, tolerant_parsing, strict_braces, stack, ret, exc, status, call>>

----------------------------------------------------------------------------
(* Bounds of the model *)

\* the input is made of at most MaxAtoms pieces of Atoms
MaxAtoms == 3

\* the input of a get_token call is made of at most MaxTokenAtoms pieces of
\* TokenAtoms
MaxTokenAtoms == 3

\* the methods other than the parse of the whole input are called at the
\* positions 0..MaxPos of the input
MaxPos == 1

\* get_latex_nodes is called with read_max_nodes in 1..MaxReadNodes
MaxReadNodes == 1

\* the number of pieces of the input strings with nested brackets, math mode
\* blocks and math environments
MaxNestedAtoms == 3

----------------------------------------------------------------------------
(* Characters and strings *)

BS == "\\"
NL == "\n"

\* str.isspace()
SpaceChars == {" ", NL}

isspace(c) == c \in SpaceChars

\* the letters of the inputs; str.isalpha()
Alpha == {"a", "b", "d", "e", "f", "g", "i", "m", "n", "o", "q"}

isalpha(c) == c \in Alpha

\* the regular expression class [\w*] of the environment name
EnvNameChars == Alpha \cup {"0", "1", "_", "*"}

\* s[i]
Ch(str, i) == str[i + 1]

\* s[a:b], Python's slice, negative indices counting from the end
PyIndex(str, a) ==
    IF a < 0 THEN (IF a + Len(str) < 0 THEN 0 ELSE a + Len(str))
    ELSE IF a > Len(str) THEN Len(str) ELSE a

PySlice(str, a, b) == SubSeq(str, PyIndex(str, a) + 1, PyIndex(str, b))

\* s.startswith(prefix, pos)
StartsWith(str, prefix, pos) ==
    /\ pos + Len(prefix) <= Len(str)
    /\ \A k \in 1..Len(prefix) : str[pos + k] = prefix[k]

\* space.endswith('\n\n')
EndsWithParagraph(space) ==
    /\ Len(space) >= 2
    /\ space[Len(space)] = NL
    /\ space[Len(space) - 1] = NL

RECURSIVE Flatten(_)
Flatten(seqs) ==
    IF seqs = <<>> THEN <<>> ELSE Head(seqs) \o Flatten(Tail(seqs))

----------------------------------------------------------------------------
(* The latex context database handed to the walker: the specifications of  *)
(* the macros, environments and specials of the inputs.                    *)

\* the argument specification of a macro: \m reads one mandatory argument,
\* \o an optional and a mandatory one, any other macro none
MacroArgspec(name) ==
    IF name = <<"m">> THEN <<"{">>
    ELSE IF name = <<"o">> THEN <<"[", "{">>
    ELSE <<>>

\* no environment of the inputs takes arguments
EnvironmentArgspec(name) == <<>>

\* EnvironmentSpec.is_math_mode: the environment q is a math environment
EnvironmentIsMathMode(name) == name = <<"q">>

\* LatexContextDb.test_for_specials: the one specials is '~'
TestForSpecials(str, pos, ctx) ==
    IF Ch(str, pos) = "~" THEN <<"~">> ELSE <<>>

----------------------------------------------------------------------------
(* ParsingContext *)

\* ParsingContext(in_math_mode): the object, as the record of its fields
ParsingContext(in_math_mode) == [in_math_mode |-> in_math_mode]

\* ParsingContext._fields
ParsingContextFields == {"in_math_mode"}

\* the loop of sub_context over kwargs.items(), a sequence of <<k, v>>:
\* setattr(p, k, v), up to the ValueError of a k that is no field
RECURSIVE SetAttrs(_, _)
SetAttrs(p, kwargs) ==
    IF kwargs = <<>> THEN [raised |-> FALSE, p |-> p]
    ELSE IF kwargs[1][1] \notin ParsingContextFields THEN [raised |-> TRUE, p |-> p]
    ELSE SetAttrs([p EXCEPT ![kwargs[1][1]] = kwargs[1][2]], Tail(kwargs))

\* what sub_context makes of the attributes set on p: whether it raised
\* ValueError, the object it returns, and the receiver as the call leaves it
SubContextResult(self, set) ==
    [raised |-> set.raised, p |-> set.p, self |-> self]

\* a faulty sub_context: it makes no copy, sets the attributes on the
\* receiver and returns the receiver
sub_contextOfReceiver(self, kwargs) ==
    [raised |-> SetAttrs(self, kwargs).raised,
     p |-> SetAttrs(self, kwargs).p,
     self |-> SetAttrs(self, kwargs).p]

\* ParsingContext.sub_context(**kwargs)
sub_context(self, kwargs) ==
    SubContextResult(self, SetAttrs(ParsingContext(self.in_math_mode), kwargs))

----------------------------------------------------------------------------
(* LatexToken and get_token *)

LatexToken(tok, arg, pos, len, pre_space, post_space) ==
    [res |-> "tok", tok |-> tok, arg |-> arg, pos |-> pos, len |-> len,
     pre_space |-> pre_space, post_space |-> post_space]

EndOfStreamRaised == [res |-> "eos"]
ParseErrorRaised(pos) == [res |-> "err", pos |-> pos]

\* the whitespace loop of get_token: pos and space when it ends, and whether
\* it ended on a paragraph break
RECURSIVE SkipSpace(_, _, _)
SkipSpace(str, pos, space) ==
    IF pos < Len(str) /\ isspace(Ch(str, pos))
    THEN IF EndsWithParagraph(Append(space, Ch(str, pos)))
         THEN [pos |-> pos + 1, space |-> Append(space, Ch(str, pos)), par |-> TRUE]
         ELSE SkipSpace(str, pos + 1, Append(space, Ch(str, pos)))
    ELSE [pos |-> pos, space |-> space, par |-> FALSE]

\* the index at which the run of characters of the set cs that starts at j ends
RECURSIVE RunEnd(_, _, _)
RunEnd(str, j, cs) ==
    IF j < Len(str) /\ Ch(str, j) \in cs THEN RunEnd(str, j + 1, cs) ELSE j

\* the match of \{([\w*]+)\} with the brace at j1 and the name ending at j2
EnvMatchName(str, start, j1, j2) ==
    IF /\ j1 < Len(str)
       /\ Ch(str, j1) = "{"
       /\ j2 > j1 + 1
       /\ j2 < Len(str)
       /\ Ch(str, j2) = "}"
    THEN [ok |-> TRUE, name |-> SubSeq(str, j1 + 2, j2), end |-> j2 + 1 - start]
    ELSE [ok |-> FALSE, name |-> <<>>, end |-> 0]

\* a faulty match: the class of the name is [A-Za-z*], without the digits
\* and the underscore of \w
EnvMatchBraceLettersOnly(str, start, j1) ==
    EnvMatchName(str, start, j1, RunEnd(str, j1 + 1, Alpha \cup {"*"}))

EnvMatchBrace(str, start, j1) ==
    EnvMatchName(str, start, j1, RunEnd(str, j1 + 1, EnvNameChars))

\* re.match(r'^\s*\{([\w*]+)\}', s[start:]): whether it matches, group(1),
\* and end() counted from start
EnvMatch(str, start) == EnvMatchBrace(str, start, RunEnd(str, start, SpaceChars))

\* the position of the first newline at or after j, Len(str) when there is none
RECURSIVE NewlinePos(_, _)
NewlinePos(str, j) ==
    IF j < Len(str) /\ Ch(str, j) # NL THEN NewlinePos(str, j + 1) ELSE j

\* a begin_environment or end_environment token, or the parse error of a
\* \begin or \end that no {name} follows
GetTokenEnvironment(str, pos, space, macro, i, envmatch) ==
    IF ~envmatch.ok THEN ParseErrorRaised(pos)
    ELSE LatexToken(IF macro = <<"b", "e", "g", "i", "n">>
                        THEN "begin_environment" ELSE "end_environment",
                    envmatch.name, pos, i + envmatch.end, space, <<>>)

\* a macro token, its post_space ending at e
GetTokenMacroSpace(str, pos, space, macro, i, e) ==
    LatexToken("macro", macro, pos, e - pos, space, SubSeq(str, pos + i + 1, e))

\* a faulty get_token: the whitespace after a macro is consumed into its
\* post_space whether or not the macro is alphabetic
GetTokenMacroAlwaysConsumesSpace(str, pos, space, environments, isalphamacro, i, macro) ==
    IF macro \in {<<"[">>, <<"]">>}
    THEN LatexToken("mathmode_display", <<BS>> \o macro, pos, i, space, <<>>)
    ELSE IF macro \in {<<"(">>, <<")">>}
    THEN LatexToken("mathmode_inline", <<BS>> \o macro, pos, i, space, <<>>)
    ELSE IF environments /\ macro \in {<<"b", "e", "g", "i", "n">>, <<"e", "n", "d">>}
    THEN GetTokenEnvironment(str, pos, space, macro, i, EnvMatch(str, pos + i))
    ELSE GetTokenMacroSpace(str, pos, space, macro, i,
            RunEnd(str, pos + i, SpaceChars))

\* the escape sequence whose name is macro and ends at pos + i
GetTokenMacro(str, pos, space, environments, isalphamacro, i, macro) ==
    IF macro \in {<<"[">>, <<"]">>}
    THEN LatexToken("mathmode_display", <<BS>> \o macro, pos, i, space, <<>>)
    ELSE IF macro \in {<<"(">>, <<")">>}
    THEN LatexToken("mathmode_inline", <<BS>> \o macro, pos, i, space, <<>>)
    ELSE IF environments /\ macro \in {<<"b", "e", "g", "i", "n">>, <<"e", "n", "d">>}
    THEN GetTokenEnvironment(str, pos, space, macro, i, EnvMatch(str, pos + i))
    ELSE GetTokenMacroSpace(str, pos, space, macro, i,
            IF isalphamacro THEN RunEnd(str, pos + i, SpaceChars) ELSE pos + i)

GetTokenMacroName(str, pos, space, environments, isalphamacro, i) ==
    GetTokenMacro(str, pos, space, environments, isalphamacro, i,
                  SubSeq(str, pos + 2, pos + i))

\* the escape sequence branch of get_token: s[pos] is a backslash
GetTokenEscape(str, pos, space, environments) ==
    IF pos + 1 >= Len(str) THEN EndOfStreamRaised
    ELSE IF isalpha(Ch(str, pos + 1))
    THEN GetTokenMacroName(str, pos, space, environments, TRUE,
                           RunEnd(str, pos + 2, Alpha) - pos)
    ELSE GetTokenMacroName(str, pos, space, environments, FALSE, 2)

\* the comment whose line ends at k (Len(str): no newline) and whose
\* post_space ends at mend
GetTokenCommentLine(str, pos, space, k, mend) ==
    LatexToken("comment", SubSeq(str, pos + 2, k), pos, mend - pos, space,
               SubSeq(str, k + 1, mend))

GetTokenCommentEnd(str, pos, space, k) ==
    GetTokenCommentLine(str, pos, space, k,
        IF k < Len(str) THEN RunEnd(str, k + 1, SpaceChars) ELSE Len(str))

\* the comment branch of get_token: s[pos] is a percent sign
GetTokenComment(str, pos, space) ==
    GetTokenCommentEnd(str, pos, space, NewlinePos(str, pos))

\* the token at pos, behind the whitespace space
GetTokenAt(str, pos, space, brackets_are_chars, environments, sspec) ==
    IF pos >= Len(str) THEN EndOfStreamRaised
    ELSE IF Ch(str, pos) = BS THEN GetTokenEscape(str, pos, space, environments)
    ELSE IF Ch(str, pos) = "%" THEN GetTokenComment(str, pos, space)
    ELSE IF Ch(str, pos) = "{" \/ (~brackets_are_chars /\ Ch(str, pos) = "[")
    THEN LatexToken("brace_open", <<Ch(str, pos)>>, pos, 1, space, <<>>)
    ELSE IF Ch(str, pos) = "}" \/ (~brackets_are_chars /\ Ch(str, pos) = "]")
    THEN LatexToken("brace_close", <<Ch(str, pos)>>, pos, 1, space, <<>>)
    ELSE IF StartsWith(str, <<"$", "$">>, pos)
    THEN LatexToken("mathmode_display", <<"$", "$">>, pos, 2, space, <<>>)
    ELSE IF StartsWith(str, <<"$">>, pos)
    THEN LatexToken("mathmode_inline", <<"$">>, pos, 1, space, <<>>)
    ELSE IF sspec # <<>>
    THEN LatexToken("specials", sspec, pos, Len(sspec), space, <<>>)
    ELSE LatexToken("char", <<Ch(str, pos)>>, pos, 1, space, <<>>)

\* get_token after its whitespace loop ended as sk
GetTokenAfterSpace(str, sk, brackets_are_chars, environments, ctx) ==
    IF sk.par
    THEN LatexToken("char", <<NL, NL>>, sk.pos - 2, 2, sk.space, <<>>)
    ELSE GetTokenAt(str, sk.pos, sk.space, brackets_are_chars, environments,
                    IF sk.pos < Len(str) THEN TestForSpecials(str, sk.pos, ctx)
                    ELSE <<>>)

\* LatexWalker.get_token(pos, brackets_are_chars, environments, parsing_context)
GetToken(str, pos, brackets_are_chars, environments, ctx) ==
    GetTokenAfterSpace(str, SkipSpace(str, pos, <<>>), brackets_are_chars,
                       environments, ctx)

----------------------------------------------------------------------------
(* Nodes.  A node is a record with the fields of every node class; argd is *)
(* nodeargd: <<>> for None, <<argnlist>> for a ParsedMacroArgs.            *)

MkNode(type, chars, nodelist, argd, delimiters, pos, len) ==
    [type |-> type, chars |-> chars, nodelist |-> nodelist, argd |-> argd,
     delimiters |-> delimiters, pos |-> pos, len |-> len]

LatexCharsNode(chars, pos, len) == MkNode("chars", chars, <<>>, <<>>, <<>>, pos, len)
LatexGroupNode(nodelist, pos, len) == MkNode("group", <<>>, nodelist, <<>>, <<>>, pos, len)
LatexCommentNode(comment, pos, len) == MkNode("comment", comment, <<>>, <<>>, <<>>, pos, len)
LatexMacroNode(macroname, argd, pos, len) ==
    MkNode("macro", macroname, <<>>, argd, <<>>, pos, len)
LatexEnvironmentNode(envname, nodelist, argd, pos, len) ==
    MkNode("environment", envname, nodelist, argd, <<>>, pos, len)
LatexSpecialsNode(specials_chars, argd, pos, len) ==
    MkNode("specials", specials_chars, <<>>, argd, <<>>, pos, len)
LatexMathNode(nodelist, delimiters, pos, len) ==
    MkNode("math", <<>>, nodelist, <<>>, delimiters, pos, len)

\* LatexMathNode.displaytype, as do_read sets it from the opening delimiter
DisplayType(delimiters) ==
    IF delimiters[1] \in {<<BS, "(">>, <<"$">>} THEN "inline" ELSE "display"

\* a None in the list of the arguments read
NoneArg == MkNode("none", <<>>, <<>>, <<>>, <<>>, 0, 0)

\* LatexNode.latex_verbatim(): s[pos:pos+len]
LatexVerbatim(n) == PySlice(s, n.pos, n.pos + n.len)

----------------------------------------------------------------------------
(* Exceptions and return values *)

LatexWalkerParseError(pos) == [type |-> "LatexWalkerParseError", pos |-> <<pos>>]
LatexWalkerEndOfStream == [type |-> "LatexWalkerEndOfStream", pos |-> <<>>]
LatexWalkerError == [type |-> "LatexWalkerError", pos |-> <<>>]
ValueError == [type |-> "ValueError", pos |-> <<>>]

\* the tuple (nodelist, pos, len) of get_latex_nodes and of parse_args, and
\* the tuple (node, pos, len) of the other methods as a list of one node
Returned(nodelist, pos, len) ==
    [nodelist |-> nodelist, pos |-> pos, len |-> len, none |-> FALSE]

\* _mknodeposlen
MkNodePosLen(node) == Returned(<<node>>, node.pos, node.len)

\* the None of get_latex_maybe_optional_arg
ReturnedNone == [nodelist |-> <<>>, pos |-> 0, len |-> 0, none |-> TRUE]

----------------------------------------------------------------------------
(* The call stack.  A configuration is the stack, the value or exception   *)
(* in flight and the walker's strict_braces.                               *)

Top(stk) == stk[Len(stk)]
Pop(stk) == SubSeq(stk, 1, Len(stk) - 1)
SetTop(stk, f) == [stk EXCEPT ![Len(stk)] = f]

Cfg(stk, r, e, sb) == [stack |-> stk, ret |-> r, exc |-> e, sb |-> sb]
Running(stk, sb) == Cfg(stk, <<>>, <<>>, sb)
Return(stk, r, sb) == Cfg(stk, <<r>>, <<>>, sb)
Raise(stk, e, sb) == Cfg(stk, <<>>, <<e>>, sb)

NoToken == LatexToken("", <<>>, 0, 0, <<>>, <<>>)

\* the locals of a get_latex_nodes call; wait names the call do_read is in
NodesFrame(pos, stop_upon_closing_brace, stop_upon_end_environment, stop_upon_closing_mathmode, read_max_nodes, in_math_mode) ==
    [fn |-> "get_latex_nodes", origpos |-> pos, pos |-> pos,
     lastchars |-> <<>>, lastchars_pos |-> <<>>, nodelist |-> <<>>,
     stop_upon_closing_brace |-> stop_upon_closing_brace,
     stop_upon_end_environment |-> stop_upon_end_environment,
     stop_upon_closing_mathmode |-> stop_upon_closing_mathmode,
     read_max_nodes |-> read_max_nodes, in_math_mode |-> in_math_mode,
     wait |-> "", tok |-> NoToken]

GroupFrame(firsttok) == [fn |-> "get_latex_braced_group", firsttok |-> firsttok]

EnvironmentFrame(startpos, environmentname, in_math_mode) ==
    [fn |-> "get_latex_environment", startpos |-> startpos,
     environmentname |-> environmentname, in_math_mode |-> in_math_mode,
     argd |-> <<>>, body |-> FALSE]

\* the _PushPropOverride of a get_latex_expression call
ExpressionFrame(new_value, initval) ==
    [fn |-> "get_latex_expression", new_value |-> new_value, initval |-> initval]

ArgsFrame(argspec, pos, in_math_mode) ==
    [fn |-> "parse_args", argspec |-> argspec, argt |-> "", startpos |-> pos,
     p |-> pos, argnlist |-> <<>>, in_math_mode |-> in_math_mode]

\* the call get_latex_nodes(pos, ...): the loop then runs step by step
EnterNodes(stk, sb, pos, stop_upon_closing_brace, stop_upon_end_environment, stop_upon_closing_mathmode, read_max_nodes, in_math_mode) ==
    Running(Append(stk, NodesFrame(pos, stop_upon_closing_brace,
                                   stop_upon_end_environment,
                                   stop_upon_closing_mathmode, read_max_nodes,
                                   in_math_mode)), sb)

\* a faulty get_latex_braced_group: the parsing context is not passed on to
\* get_latex_nodes, which gets the default one, out of math mode
GroupOfTokenDefaultContext(stk, sb, pos, brace_type, in_math_mode, firsttok) ==
    IF firsttok.res = "eos" THEN Raise(stk, LatexWalkerEndOfStream, sb)
    ELSE IF firsttok.res = "err"
    THEN Raise(stk, LatexWalkerParseError(firsttok.pos), sb)
    ELSE IF firsttok.tok # "brace_open" \/ firsttok.arg # <<brace_type>>
    THEN Raise(stk, LatexWalkerParseError(pos), sb)
    ELSE EnterNodes(Append(stk, GroupFrame(firsttok)), sb,
                    firsttok.pos + firsttok.len,
                    IF brace_type = "{" THEN <<"}">> ELSE <<"]">>, <<>>, <<>>, 0,
                    FALSE)

\* get_latex_braced_group after it read firsttok
GroupOfToken(stk, sb, pos, brace_type, in_math_mode, firsttok) ==
    IF firsttok.res = "eos" THEN Raise(stk, LatexWalkerEndOfStream, sb)
    ELSE IF firsttok.res = "err"
    THEN Raise(stk, LatexWalkerParseError(firsttok.pos), sb)
    ELSE IF firsttok.tok # "brace_open" \/ firsttok.arg # <<brace_type>>
    THEN Raise(stk, LatexWalkerParseError(pos), sb)
    ELSE EnterNodes(Append(stk, GroupFrame(firsttok)), sb,
                    firsttok.pos + firsttok.len,
                    IF brace_type = "{" THEN <<"}">> ELSE <<"]">>, <<>>, <<>>, 0,
                    in_math_mode)

\* get_latex_braced_group(pos, brace_type), up to its call of get_latex_nodes
EnterGroup(stk, sb, pos, brace_type, in_math_mode) ==
    GroupOfToken(stk, sb, pos, brace_type, in_math_mode,
                 GetToken(s, pos, brace_type # "[", TRUE, in_math_mode))

RECURSIVE EnterExpression(_, _, _, _, _)

\* a faulty get_latex_expression: strict_braces alone makes a closing brace
\* an error, whatever tolerant_parsing is
ExpressionOfBraceCloseStrictBracesOnly(stk, sb, sb1, pos, tok) ==
    IF sb1
    THEN Raise(stk, LatexWalkerParseError(pos), sb)
    ELSE Return(stk, MkNodePosLen(LatexCharsNode(<<>>, tok.pos, 0)), sb)

\* get_latex_expression when tok is a closing brace
ExpressionOfBraceClose(stk, sb, sb1, pos, tok) ==
    IF sb1 /\ ~tolerant_parsing
    THEN Raise(stk, LatexWalkerParseError(pos), sb)
    ELSE Return(stk, MkNodePosLen(LatexCharsNode(<<>>, tok.pos, 0)), sb)

\* a faulty get_latex_expression: nodeargd=None is left out, so that the
\* macro node gets the default of LatexMacroNode, an empty ParsedMacroArgs
ExpressionOfMacroDefaultArgs(stk, sb, pos, tok) ==
    IF tok.arg = <<"e", "n", "d">>
    THEN IF ~tolerant_parsing
         THEN Raise(stk, LatexWalkerParseError(pos), sb)
         ELSE Return(stk, MkNodePosLen(LatexCharsNode(<<>>, tok.pos, 0)), sb)
    ELSE Return(stk, MkNodePosLen(
            LatexMacroNode(tok.arg, <<<<>>>>, tok.pos, tok.len)), sb)

\* a faulty get_latex_expression: in tolerant mode the \end it meets is
\* consumed, the empty chars node having the length of the token
ExpressionOfMacroConsumesEnd(stk, sb, pos, tok) ==
    IF tok.arg = <<"e", "n", "d">>
    THEN IF ~tolerant_parsing
         THEN Raise(stk, LatexWalkerParseError(pos), sb)
         ELSE Return(stk, MkNodePosLen(LatexCharsNode(<<>>, tok.pos, tok.len)), sb)
    ELSE Return(stk, MkNodePosLen(
            LatexMacroNode(tok.arg, <<>>, tok.pos, tok.len)), sb)

\* get_latex_expression when tok is a macro
ExpressionOfMacro(stk, sb, pos, tok) ==
    IF tok.arg = <<"e", "n", "d">>
    THEN IF ~tolerant_parsing
         THEN Raise(stk, LatexWalkerParseError(pos), sb)
         ELSE Return(stk, MkNodePosLen(LatexCharsNode(<<>>, tok.pos, 0)), sb)
    ELSE Return(stk, MkNodePosLen(
            LatexMacroNode(tok.arg, <<>>, tok.pos, tok.len)), sb)

\* get_latex_expression after it read tok, sb1 being strict_braces inside the
\* with block (after _PushPropOverride.__enter__) and sb outside of it: a
\* return or a raise from here leaves through __exit__
ExpressionOfToken(stk, sb, sb1, pos, new_value, in_math_mode, tok) ==
    IF tok.res = "eos" THEN Raise(stk, LatexWalkerEndOfStream, sb)
    ELSE IF tok.res = "err" THEN Raise(stk, LatexWalkerParseError(tok.pos), sb)
    ELSE IF tok.tok = "macro"
    THEN ExpressionOfMacro(stk, sb, pos, tok)
    ELSE IF tok.tok = "specials"
    THEN Return(stk, MkNodePosLen(
            LatexSpecialsNode(tok.arg, <<>>, tok.pos, tok.len)), sb)
    ELSE IF tok.tok = "comment"
    THEN EnterExpression(Append(stk, ExpressionFrame(new_value, sb)), sb1,
                         tok.pos + tok.len, <<>>, in_math_mode)
    ELSE IF tok.tok = "brace_open"
    THEN EnterGroup(Append(stk, ExpressionFrame(new_value, sb)), sb1, tok.pos,
                    "{", in_math_mode)
    ELSE IF tok.tok = "brace_close"
    THEN ExpressionOfBraceClose(stk, sb, sb1, pos, tok)
    ELSE IF tok.tok = "char"
    THEN Return(stk, MkNodePosLen(LatexCharsNode(tok.arg, tok.pos, tok.len)), sb)
    ELSE \* mathmode_inline, mathmode_display
         IF tok.arg[1] = BS
         THEN Return(stk, MkNodePosLen(
                 LatexMacroNode(tok.arg, <<<<>>>>, tok.pos, tok.len)), sb)
         ELSE Return(stk, MkNodePosLen(
                 LatexCharsNode(tok.arg, tok.pos, tok.len)), sb)

\* get_latex_expression(pos, strict_braces=new_value), up to its return or to
\* the call it makes
EnterExpression(stk, sb, pos, new_value, in_math_mode) ==
    ExpressionOfToken(stk, sb, IF new_value # <<>> THEN new_value[1] ELSE sb,
                      pos, new_value, in_math_mode,
                      GetToken(s, pos, TRUE, FALSE, in_math_mode))

\* get_latex_maybe_optional_arg after it read tok
MaybeOptionalArgOfToken(stk, sb, pos, in_math_mode, tok) ==
    IF tok.res = "eos" THEN Raise(stk, LatexWalkerEndOfStream, sb)
    ELSE IF tok.res = "err" THEN Raise(stk, LatexWalkerParseError(tok.pos), sb)
    ELSE IF tok.tok = "brace_open" /\ tok.arg = <<"[">>
    THEN EnterGroup(stk, sb, pos, "[", in_math_mode)
    ELSE Return(stk, ReturnedNone, sb)

\* get_latex_maybe_optional_arg(pos)
EnterMaybeOptionalArg(stk, sb, pos, in_math_mode) ==
    MaybeOptionalArgOfToken(stk, sb, pos, in_math_mode,
                            GetToken(s, pos, FALSE, FALSE, in_math_mode))

\* the argument parser reads the argument argt of the frame f on top
ArgsRead(stk, sb, f, argt) ==
    IF argt = "{"
    THEN EnterExpression(SetTop(stk, [f EXCEPT !.argspec = Tail(@), !.argt = argt]),
                         sb, f.p, <<FALSE>>, f.in_math_mode)
    ELSE EnterMaybeOptionalArg(
             SetTop(stk, [f EXCEPT !.argspec = Tail(@), !.argt = argt]),
             sb, f.p, f.in_math_mode)

\* the loop of the standard argument parser, from the frame f on top of the
\* stack: the next argument of argspec is read, or the arguments are returned
ArgsLoop(stk, sb, f) ==
    IF f.argspec = <<>>
    THEN Return(Pop(stk), Returned(f.argnlist, f.startpos, f.p - f.startpos), sb)
    ELSE ArgsRead(stk, sb, f, Head(f.argspec))

ArgsNext(stk, sb) == ArgsLoop(stk, sb, Top(stk))

\* MacroSpec.parse_args(w, pos, parsing_context), EnvironmentSpec.parse_args
EnterArgs(stk, sb, argspec, pos, in_math_mode) ==
    ArgsNext(Append(stk, ArgsFrame(argspec, pos, in_math_mode)), sb)

\* get_latex_environment after it read firsttok
EnvironmentOfToken(stk, sb, pos, environmentname, in_math_mode, firsttok) ==
    IF firsttok.res = "eos" THEN Raise(stk, LatexWalkerEndOfStream, sb)
    ELSE IF firsttok.res = "err"
    THEN Raise(stk, LatexWalkerParseError(firsttok.pos), sb)
    ELSE IF \/ firsttok.tok # "begin_environment"
            \/ (environmentname # <<>> /\ firsttok.arg # environmentname)
    THEN Raise(stk, LatexWalkerParseError(pos), sb)
    ELSE EnterArgs(Append(stk, EnvironmentFrame(pos, firsttok.arg, in_math_mode)),
                   sb, EnvironmentArgspec(firsttok.arg),
                   firsttok.pos + firsttok.len, in_math_mode)

\* get_latex_environment(pos, environmentname), up to its call of parse_args
EnterEnvironment(stk, sb, pos, environmentname, in_math_mode) ==
    EnvironmentOfToken(stk, sb, pos, environmentname, in_math_mode,
                       GetToken(s, pos, TRUE, TRUE, in_math_mode))

----------------------------------------------------------------------------
(* get_latex_nodes: the loop and do_read.  The frame f that the operators  *)
(* of do_read take holds what do_read has assigned to p and appended to    *)
(* nodelist so far: a raise keeps it, as the loop goes on with the same p  *)
(* and nodelist.                                                           *)

\* the end of the loop once r_endnow holds: the last chars are added and the
\* call returns (nodelist, origpos, p.pos - origpos)
FinishNodes(stk, sb, f) ==
    Return(Pop(stk),
           Returned(IF f.lastchars # <<>>
                    THEN Append(f.nodelist,
                                LatexCharsNode(f.lastchars, f.lastchars_pos[1],
                                               Len(f.lastchars)))
                    ELSE f.nodelist,
                    f.origpos, f.pos - f.origpos),
           sb)

\* read_max_nodes and len(nodelist) >= read_max_nodes
ReadMaxNodesReached(f) ==
    f.read_max_nodes # 0 /\ Len(f.nodelist) >= f.read_max_nodes

\* nodelist.append(node) at the end of a branch of do_read, and its return
NodeAppended(stk, sb, f) ==
    IF ReadMaxNodesReached(f) THEN FinishNodes(stk, sb, f)
    ELSE Running(SetTop(stk, f), sb)

AppendNode(stk, sb, f, node) ==
    NodeAppended(stk, sb,
        [f EXCEPT !.nodelist = Append(@, node), !.wait = "", !.tok = NoToken])

\* a faulty do_read: the closing delimiter is taken to be the opening one,
\* also for \( and \[
CorrespondingClosingMathmodeSame(arg) == arg

\* the closing delimiter of an opening math mode delimiter
CorrespondingClosingMathmode(arg) ==
    IF arg = <<BS, "(">> THEN <<BS, ")">>
    ELSE IF arg = <<BS, "[">> THEN <<BS, "]">>
    ELSE arg

ClosingMathmodeDelimiters == {<<BS, ")">>, <<BS, "]">>}

\* a faulty do_read: \) and \] are not told from the opening delimiters,
\* and open a math mode block of their own
DoReadMathmodeOpensOnCloser(stk, sb, f, tok) ==
    IF f.stop_upon_closing_mathmode # <<>> /\ tok.arg = f.stop_upon_closing_mathmode
    THEN FinishNodes(stk, sb, f)
    ELSE EnterNodes(SetTop(stk, [f EXCEPT !.wait = "math", !.tok = tok]), sb, f.pos,
                    <<>>, <<>>, CorrespondingClosingMathmode(tok.arg), 0, TRUE)

\* parsing_context.sub_context(in_math_mode=True), parsing_context being
\* the one with the given in_math_mode
MathModeSubContext(in_math_mode) ==
    sub_context(ParsingContext(in_math_mode), <<<<"in_math_mode", TRUE>>>>)

\* do_read calls get_latex_nodes for the body of the math mode block tok
\* opens, with the parsing context inner.p; inner.self is its own context
\* after the call of sub_context
DoReadMathmodeBody(stk, sb, f, tok, inner) ==
    EnterNodes(SetTop(stk, [f EXCEPT !.wait = "math", !.tok = tok,
                                     !.in_math_mode = inner.self.in_math_mode]),
               sb, f.pos, <<>>, <<>>, CorrespondingClosingMathmode(tok.arg), 0,
               inner.p.in_math_mode)

\* the branch of do_read for a math mode token, up to its call of get_latex_nodes
DoReadMathmode(stk, sb, f, tok) ==
    IF f.stop_upon_closing_mathmode # <<>> /\ tok.arg = f.stop_upon_closing_mathmode
    THEN FinishNodes(stk, sb, f)
    ELSE IF tok.arg \in ClosingMathmodeDelimiters
    THEN Raise(SetTop(stk, f), LatexWalkerParseError(tok.pos), sb)
    ELSE DoReadMathmodeBody(stk, sb, f, tok, MathModeSubContext(f.in_math_mode))

\* do_read after the last chars were pushed: what the token is
DoReadDispatch(stk, sb, f, tok) ==
    IF tok.tok = "brace_close"
    THEN IF tok.arg # f.stop_upon_closing_brace
         THEN Raise(SetTop(stk, f), LatexWalkerParseError(tok.pos), sb)
         ELSE FinishNodes(stk, sb, f)
    ELSE IF tok.tok = "end_environment"
    THEN IF tok.arg # f.stop_upon_end_environment
         THEN Raise(SetTop(stk, f), LatexWalkerParseError(tok.pos), sb)
         ELSE FinishNodes(stk, sb, f)
    ELSE IF tok.tok \in {"mathmode_inline", "mathmode_display"}
    THEN DoReadMathmode(stk, sb, f, tok)
    ELSE IF tok.tok = "comment"
    THEN AppendNode(stk, sb, f, LatexCommentNode(tok.arg, tok.pos, tok.len))
    ELSE IF tok.tok = "brace_open"
    THEN EnterGroup(SetTop(stk, [f EXCEPT !.wait = "group", !.tok = tok]), sb,
                    tok.pos, "{", f.in_math_mode)
    ELSE IF tok.tok = "begin_environment"
    THEN EnterEnvironment(SetTop(stk, [f EXCEPT !.wait = "environment", !.tok = tok]),
                          sb, tok.pos, tok.arg, f.in_math_mode)
    ELSE IF tok.tok = "macro"
    THEN EnterArgs(SetTop(stk, [f EXCEPT !.wait = "macro", !.tok = tok]), sb,
                   MacroArgspec(tok.arg), tok.pos + tok.len, f.in_math_mode)
    ELSE \* specials; the specials of the inputs have no argument parser
         AppendNode(stk, sb, f, LatexSpecialsNode(tok.arg, <<>>, tok.pos, tok.len))

\* do_read once the chars node of the last chars, or of the token's
\* pre_space, is appended: the return of read_max_nodes, p.pos being set back
\* to the token (setback) after the last chars, or the dispatch
DoReadFlushed(stk, sb, f, tok, setback) ==
    IF ReadMaxNodesReached(f)
    THEN FinishNodes(stk, sb, IF setback THEN [f EXCEPT !.pos = tok.pos] ELSE f)
    ELSE DoReadDispatch(stk, sb, f, tok)

\* do_read for a token that is not a char: the last chars, or the token's
\* pre_space, become a chars node, then the token is dispatched
DoReadFlush(stk, sb, f, tok) ==
    IF Len(f.lastchars) > 0 \/ Len(tok.pre_space) > 0
    THEN DoReadFlushed(stk, sb,
            IF Len(f.lastchars) > 0
            THEN [f EXCEPT !.lastchars = <<>>, !.lastchars_pos = <<>>,
                           !.nodelist = Append(@,
                               LatexCharsNode(f.lastchars \o tok.pre_space,
                                              f.lastchars_pos[1],
                                              tok.pos - f.lastchars_pos[1]))]
            ELSE [f EXCEPT !.nodelist = Append(@,
                               LatexCharsNode(tok.pre_space,
                                              tok.pos - Len(tok.pre_space),
                                              Len(tok.pre_space)))],
            tok, Len(f.lastchars) > 0)
    ELSE DoReadDispatch(stk, sb, f, tok)

\* a faulty do_read: a paragraph break is not added to the last chars but
\* becomes a chars node of its own, after the node of the chars before it
DoReadCharParagraphNode(stk, sb, f, tok) ==
    IF tok.arg = <<NL, NL>>
    THEN Running(SetTop(stk,
            [f EXCEPT !.lastchars = <<>>, !.lastchars_pos = <<>>,
                      !.nodelist =
                          Append(IF f.lastchars # <<>>
                                 THEN Append(@, LatexCharsNode(f.lastchars,
                                                    f.lastchars_pos[1],
                                                    Len(f.lastchars)))
                                 ELSE @,
                                 LatexCharsNode(tok.arg, tok.pos, tok.len))]), sb)
    ELSE Running(SetTop(stk,
            [f EXCEPT !.lastchars = @ \o tok.pre_space \o tok.arg,
                      !.lastchars_pos =
                          IF @ = <<>> THEN <<tok.pos - Len(tok.pre_space)>>
                          ELSE @]), sb)

\* do_read when tok is a char: it is added to the last chars
DoReadChar(stk, sb, f, tok) ==
    Running(SetTop(stk,
        [f EXCEPT !.lastchars = @ \o tok.pre_space \o tok.arg,
                  !.lastchars_pos =
                      IF @ = <<>> THEN <<tok.pos - Len(tok.pre_space)>>
                      ELSE @]), sb)

\* do_read after get_token returned tok, or raised
DoReadToken(stk, sb, f, tok) ==
    IF tok.res = "eos"
    THEN IF tolerant_parsing THEN FinishNodes(stk, sb, f)
         ELSE Raise(stk, LatexWalkerEndOfStream, sb)
    ELSE IF tok.res = "err" THEN Raise(stk, LatexWalkerParseError(tok.pos), sb)
    ELSE IF tok.tok = "char"
    THEN DoReadChar(stk, sb, [f EXCEPT !.pos = tok.pos + tok.len], tok)
    ELSE DoReadFlush(stk, sb, [f EXCEPT !.pos = tok.pos + tok.len], tok)

\* one iteration of the loop of the get_latex_nodes call f on top of the
\* stack: do_read up to its return, its raise or the call it makes
DoReadFrame(stk, sb, f) ==
    DoReadToken(stk, sb, f,
                GetToken(s, f.pos, f.stop_upon_closing_brace # <<"]">>, TRUE,
                         f.in_math_mode))

DoReadStep(stk, sb) == DoReadFrame(stk, sb, Top(stk))

\* a faulty loop: the end of the stream inside a group or an environment is
\* reported in strict mode as a parse error at the opening delimiter
HandleInFrameParseErrorAtOpening(stk, sb, e, f) ==
    IF e.type = "LatexWalkerParseError"
    THEN IF tolerant_parsing THEN Running(SetTop(stk, f), sb)
         ELSE Raise(Pop(stk), e, sb)
    ELSE IF e.type = "LatexWalkerEndOfStream"
    THEN IF f.stop_upon_closing_brace # <<>> \/ f.stop_upon_end_environment # <<>>
         THEN IF ~tolerant_parsing
              THEN Raise(Pop(stk), LatexWalkerParseError(f.origpos - 1), sb)
              ELSE Running(SetTop(stk, f), sb)
         ELSE FinishNodes(stk, sb, f)
    ELSE Raise(Pop(stk), e, sb)

\* a faulty loop: in tolerant mode a parse error raised in do_read ends the
\* call, which returns what it has read
HandleInFrameParseErrorEndsCall(stk, sb, e, f) ==
    IF e.type = "LatexWalkerParseError"
    THEN IF tolerant_parsing THEN FinishNodes(stk, sb, f)
         ELSE Raise(Pop(stk), e, sb)
    ELSE IF e.type = "LatexWalkerEndOfStream"
    THEN IF f.stop_upon_closing_brace # <<>> \/ f.stop_upon_end_environment # <<>>
         THEN IF ~tolerant_parsing THEN Raise(Pop(stk), LatexWalkerError, sb)
              ELSE Running(SetTop(stk, f), sb)
         ELSE FinishNodes(stk, sb, f)
    ELSE Raise(Pop(stk), e, sb)

\* the except clauses of the loop, for the exception e raised in do_read
HandleInFrame(stk, sb, e, f) ==
    IF e.type = "LatexWalkerParseError"
    THEN IF tolerant_parsing THEN Running(SetTop(stk, f), sb)
         ELSE Raise(Pop(stk), e, sb)
    ELSE IF e.type = "LatexWalkerEndOfStream"
    THEN IF f.stop_upon_closing_brace # <<>> \/ f.stop_upon_end_environment # <<>>
         THEN IF ~tolerant_parsing THEN Raise(Pop(stk), LatexWalkerError, sb)
              ELSE Running(SetTop(stk, f), sb)
         ELSE FinishNodes(stk, sb, f)
    ELSE Raise(Pop(stk), e, sb)

HandleInLoop(stk, sb, e) ==
    HandleInFrame(stk, sb, e, [Top(stk) EXCEPT !.wait = "", !.tok = NoToken])

\* the node do_read makes of what the call it made for tok returned
DoReadNode(wait, tok, r) ==
    IF wait = "math"
    THEN LatexMathNode(r.nodelist,
                       <<tok.arg, CorrespondingClosingMathmode(tok.arg)>>,
                       tok.pos, r.pos + r.len - tok.pos)
    ELSE IF wait = "macro"
    THEN LatexMacroNode(tok.arg, <<r.nodelist>>, tok.pos, r.pos + r.len - tok.pos)
    ELSE \* a group or an environment
         r.nodelist[1]

\* do_read of the frame f after the call it made returned r
DoReadResumeFrame(stk, sb, f, r) ==
    AppendNode(stk, sb, [f EXCEPT !.pos = r.pos + r.len], DoReadNode(f.wait, f.tok, r))

DoReadResume(stk, sb, r) == DoReadResumeFrame(stk, sb, Top(stk), r)

\* a faulty get_latex_braced_group: the length of the group leaves out its
\* closing brace
GroupResumeWithoutClosingBrace(stk, sb, r) ==
    Return(Pop(stk),
           MkNodePosLen(LatexGroupNode(r.nodelist, Top(stk).firsttok.pos,
                                       r.pos + r.len - Top(stk).firsttok.pos - 1)),
           sb)

\* get_latex_braced_group after get_latex_nodes returned r
GroupResume(stk, sb, r) ==
    Return(Pop(stk),
           MkNodePosLen(LatexGroupNode(r.nodelist, Top(stk).firsttok.pos,
                                       r.pos + r.len - Top(stk).firsttok.pos)),
           sb)

\* get_latex_environment calls get_latex_nodes for the body, after
\* parse_args returned r, with the parsing context inner.p; inner.self is
\* its own context then
EnvironmentBody(stk, sb, f, r, inner) ==
    EnterNodes(SetTop(stk, [f EXCEPT !.argd = <<r.nodelist>>, !.body = TRUE,
                                     !.in_math_mode = inner.self.in_math_mode]),
               sb, r.pos + r.len, <<>>, f.environmentname, <<>>, 0,
               inner.p.in_math_mode)

\* get_latex_environment after parse_args, then after get_latex_nodes returned r
EnvironmentResumeFrame(stk, sb, f, r) ==
    IF ~f.body
    THEN EnvironmentBody(stk, sb, f, r,
            IF EnvironmentIsMathMode(f.environmentname)
            THEN MathModeSubContext(f.in_math_mode)
            ELSE [p |-> ParsingContext(f.in_math_mode),
                  self |-> ParsingContext(f.in_math_mode)])
    ELSE Return(Pop(stk),
                MkNodePosLen(LatexEnvironmentNode(f.environmentname, r.nodelist,
                                f.argd, f.startpos, r.pos + r.len - f.startpos)),
                sb)

EnvironmentResume(stk, sb, r) == EnvironmentResumeFrame(stk, sb, Top(stk), r)

\* the argument parser after get_latex_expression or
\* get_latex_maybe_optional_arg returned r
ArgsResume(stk, sb, r) ==
    ArgsLoop(stk, sb,
             IF r.none
             THEN [Top(stk) EXCEPT !.argnlist = Append(@, NoneArg)]
             ELSE [Top(stk) EXCEPT !.argnlist = Append(@, r.nodelist[1]),
                                   !.p = r.pos + r.len])

\* a faulty _PushPropOverride.__exit__: the property is left as it is
ExpressionExitKeeps(stk, sb) == sb

\* _PushPropOverride.__exit__ of the get_latex_expression call on top
ExpressionExit(stk, sb) ==
    IF Top(stk).new_value # <<>> THEN Top(stk).initval ELSE sb

----------------------------------------------------------------------------
(* The inputs *)

\* the pieces the input strings are made of
Atoms ==
    { <<"a">>, <<" ">>, <<NL>>, <<NL, NL>>, <<BS>>, <<"{">>, <<"}">>, <<"[">>,
      <<"]">>, <<"$">>, <<"%">>, <<"~">>, <<"{", "a", "}">>,
      <<BS, "(">>, <<BS, ")">>,
      <<BS, "m">>, <<BS, "o">>,
      <<BS, "b", "e", "g", "i", "n">>,
      <<BS, "b", "e", "g", "i", "n", "{", "e", "}">>,
      <<BS, "e", "n", "d", "{", "e", "}">>,
      <<BS, "e", "n", "d", "{", "f", "}">> }

Inputs ==
    UNION { { Flatten(as) : as \in [1..n -> Atoms] } : n \in 0..MaxAtoms }

\* the pieces the input strings of the get_token calls are made of
TokenAtoms ==
    { <<"a">>, <<"1">>, <<" ">>, <<NL>>, <<BS>>, <<"{">>, <<"}">>, <<"[">>,
      <<"]">>, <<"(">>, <<")">>, <<"$">>, <<"%">>, <<"~">>,
      <<"{", "a", "}">>, <<"{", "1", "}">>, <<"{", "a", "_", "}">>,
      <<"{", "*", "}">>, <<"{", "a", "~", "}">>,
      <<BS, "b", "e", "g", "i", "n">>,
      <<BS, "e", "n", "d">> }

TokenInputs ==
    UNION { { Flatten(as) : as \in [1..n -> TokenAtoms] } : n \in 0..MaxTokenAtoms }

\* the pieces of the input strings with nested brackets, math mode blocks
\* and math environments
NestedAtoms ==
    { <<"a">>, <<"{">>, <<"}">>, <<"[">>, <<"]">>, <<"[", "a", "]">>,
      <<"$">>, <<"~">>, <<BS, "m">>, <<BS, "o">>,
      <<BS, "b", "e", "g", "i", "n", "{", "q", "}">>,
      <<BS, "e", "n", "d", "{", "q", "}">>,
      <<BS, "b", "e", "g", "i", "n", "{", "e", "}">>,
      <<BS, "e", "n", "d", "{", "e", "}">> }

NestedInputs ==
    UNION { { Flatten(as) : as \in [1..n -> NestedAtoms] } : n \in 0..MaxNestedAtoms }

\* the positions of the string str at which its methods are called
Positions(str) == { pos \in 0..MaxPos : pos <= Len(str) }

----------------------------------------------------------------------------
(* The walker *)

\* what the walker's caller called: the method, the strict_braces argument
\* of get_latex_expression (<<>>: None) and, at their defaults, the other
\* arguments a method may take: pos, read_max_nodes (0: None),
\* brackets_are_chars and environments
Call(fn, new_value) ==
    [fn |-> fn, strict_braces |-> new_value, pos |-> 0, read_max_nodes |-> 0,
     brackets_are_chars |-> TRUE, environments |-> TRUE]

\* the call fn(pos)
CallAt(fn, pos) == [Call(fn, <<>>) EXCEPT !.pos = pos]

NoCall == Call("", <<>>)

\* the parsing contexts sub_context is called on and the keyword arguments
\* it is called with, in the order of kwargs.items()
Contexts == { ParsingContext(m) : m \in BOOLEAN }

KwargsKeys == {"in_math_mode", "math_mode"}

KwargsItems == { <<k, v>> : k \in KwargsKeys, v \in BOOLEAN }

Kwargs ==
    {<<>>} \cup { <<i>> : i \in KwargsItems }
           \cup { kw \in KwargsItems \X KwargsItems : kw[1][1] # kw[2][1] }

\* LatexWalker(s, tolerant_parsing=..., strict_braces=...)
Init ==
    /\ s \in Inputs
    /\ tolerant_parsing \in BOOLEAN
    /\ strict_braces \in BOOLEAN
    /\ stack = <<>>
    /\ ret = <<>>
    /\ exc = <<>>
    /\ status = "idle"
    /\ call = NoCall

\* the walker moves to the configuration c; a call that left the stack
\* empty has returned to, or raised into, the walker's caller
Goto(c) ==
    /\ stack' = c.stack
    /\ ret' = c.ret
    /\ exc' = c.exc
    /\ strict_braces' = c.sb
    /\ status' = IF c.stack # <<>> THEN "running"
                 ELSE IF c.exc # <<>> THEN "raised"
                 ELSE "returned"
    /\ UNCHANGED <<s, tolerant_parsing>>

\* w.get_latex_nodes(pos=0)
CallGetLatexNodes ==
    /\ status = "idle"
    /\ Goto(EnterNodes(<<>>, strict_braces, 0, <<>>, <<>>, <<>>, 0, FALSE))
    /\ call' = Call("get_latex_nodes", <<>>)

\* w.get_latex_expression(pos=0, strict_braces=v)
CallGetLatexExpression ==
    /\ status = "idle"
    /\ \E v \in {<<>>, <<TRUE>>, <<FALSE>>} :
          /\ Goto(EnterExpression(<<>>, strict_braces, 0, v, FALSE))
          /\ call' = Call("get_latex_expression", v)

\* w.get_latex_nodes(pos, read_max_nodes=n)
CallGetLatexNodesReadMax ==
    /\ status = "idle"
    /\ \E pos \in Positions(s), n \in 1..MaxReadNodes :
          /\ Goto(EnterNodes(<<>>, strict_braces, pos, <<>>, <<>>, <<>>, n, FALSE))
          /\ call' = [CallAt("get_latex_nodes", pos) EXCEPT !.read_max_nodes = n]

\* w.get_latex_maybe_optional_arg(pos)
CallGetLatexMaybeOptionalArg ==
    /\ status = "idle"
    /\ \E pos \in Positions(s) :
          /\ Goto(EnterMaybeOptionalArg(<<>>, strict_braces, pos, FALSE))
          /\ call' = CallAt("get_latex_maybe_optional_arg", pos)

\* w.get_latex_environment(pos), environmentname being None
CallGetLatexEnvironment ==
    /\ status = "idle"
    /\ \E pos \in Positions(s) :
          /\ Goto(EnterEnvironment(<<>>, strict_braces, pos, <<>>, FALSE))
          /\ call' = CallAt("get_latex_environment", pos)

\* w.get_latex_braced_group(0, brace_type)
CallGetLatexBracedGroup ==
    /\ status = "idle"
    /\ \E brace_type \in {"{", "["} :
          /\ Goto(EnterGroup(<<>>, strict_braces, 0, brace_type, FALSE))
          /\ call' = CallAt("get_latex_braced_group", 0)
                         @@ [brace_type |-> brace_type]

InFlight == ret # <<>> \/ exc # <<>>

\* the call receiver.sub_context(**kwargs) returned or raised r: the call
\* record keeps the receiver as it was (self0) and as it is now (self)
SubContextCalled(receiver, kwargs, r) ==
    /\ call' = Call("sub_context", <<>>)
                   @@ [self0 |-> receiver, self |-> r.self, kwargs |-> kwargs]
    /\ ret' = IF r.raised THEN <<>> ELSE <<r.p>>
    /\ exc' = IF r.raised THEN <<ValueError>> ELSE <<>>
    /\ status' = IF r.raised THEN "raised" ELSE "returned"
    /\ UNCHANGED <<s, tolerant_parsing, strict_braces, stack>>

\* parsing_context.sub_context(**kwargs)
CallSubContext ==
    /\ status = "idle"
    /\ \E receiver \in Contexts, kwargs \in Kwargs :
          SubContextCalled(receiver, kwargs, sub_context(receiver, kwargs))

\* an iteration of the loop of get_latex_nodes
DoRead ==
    /\ status = "running" /\ ~InFlight
    /\ Top(stack).fn = "get_latex_nodes"
    /\ Goto(DoReadStep(stack, strict_braces))
    /\ UNCHANGED call

\* the loop of get_latex_nodes catches, or lets through, what do_read raised
CatchInLoop ==
    /\ status = "running" /\ exc # <<>>
    /\ Top(stack).fn = "get_latex_nodes"
    /\ Goto(HandleInLoop(stack, strict_braces, exc[1]))
    /\ UNCHANGED call

\* an exception leaves a call that does not catch it
Propagate ==
    /\ status = "running" /\ exc # <<>>
    /\ Top(stack).fn # "get_latex_nodes"
    /\ Goto(Raise(Pop(stack), exc[1],
                  IF Top(stack).fn = "get_latex_expression"
                  THEN ExpressionExit(stack, strict_braces) ELSE strict_braces))
    /\ UNCHANGED call

\* do_read goes on after the call it made returned
ReturnToDoRead ==
    /\ status = "running" /\ ret # <<>>
    /\ Top(stack).fn = "get_latex_nodes"
    /\ Goto(DoReadResume(stack, strict_braces, ret[1]))
    /\ UNCHANGED call

ReturnToGroup ==
    /\ status = "running" /\ ret # <<>>
    /\ Top(stack).fn = "get_latex_braced_group"
    /\ Goto(GroupResume(stack, strict_braces, ret[1]))
    /\ UNCHANGED call

ReturnToEnvironment ==
    /\ status = "running" /\ ret # <<>>
    /\ Top(stack).fn = "get_latex_environment"
    /\ Goto(EnvironmentResume(stack, strict_braces, ret[1]))
    /\ UNCHANGED call

ReturnToArgs ==
    /\ status = "running" /\ ret # <<>>
    /\ Top(stack).fn = "parse_args"
    /\ Goto(ArgsResume(stack, strict_braces, ret[1]))
    /\ UNCHANGED call

\* get_latex_expression returns what the call it made returned
ReturnToExpression ==
    /\ status = "running" /\ ret # <<>>
    /\ Top(stack).fn = "get_latex_expression"
    /\ Goto(Return(Pop(stack), ret[1], ExpressionExit(stack, strict_braces)))
    /\ UNCHANGED call

Next ==
    \/ CallGetLatexNodes
    \/ CallGetLatexExpression
    \/ CallGetLatexNodesReadMax
    \/ CallGetLatexMaybeOptionalArg
    \/ CallGetLatexEnvironment
    \/ CallSubContext
    \/ DoRead
    \/ CatchInLoop
    \/ Propagate
    \/ ReturnToDoRead
    \/ ReturnToGroup
    \/ ReturnToEnvironment
    \/ ReturnToArgs
    \/ ReturnToExpression

Spec == Init /\ [][Next]_vars

\* LatexWalker(s), its flags at their defaults, for the calls of get_token
TokenInit ==
    /\ s \in TokenInputs
    /\ tolerant_parsing = TRUE
    /\ strict_braces = FALSE
    /\ stack = <<>>
    /\ ret = <<>>
    /\ exc = <<>>
    /\ status = "idle"
    /\ call = NoCall

\* what get_token raised: LatexWalkerEndOfStream or LatexWalkerParseError
TokenRaised(tok) ==
    IF tok.res = "eos" THEN LatexWalkerEndOfStream
    ELSE LatexWalkerParseError(tok.pos)

\* the caller of get_token got tok, or what get_token raised
TokenResult(tok) ==
    /\ ret' = IF tok.res = "tok" THEN <<tok>> ELSE <<>>
    /\ exc' = IF tok.res = "tok" THEN <<>> ELSE <<TokenRaised(tok)>>
    /\ status' = IF tok.res = "tok" THEN "returned" ELSE "raised"
    /\ UNCHANGED <<s, tolerant_parsing, strict_braces, stack>>

\* w.get_token(pos, brackets_are_chars=b, environments=e)
CallGetToken ==
    /\ status = "idle"
    /\ \E pos \in 0..Len(s), b \in BOOLEAN, e \in BOOLEAN :
          /\ TokenResult(GetToken(s, pos, b, e, FALSE))
          /\ call' = [CallAt("get_token", pos) EXCEPT !.brackets_are_chars = b,
                                                       !.environments = e]

TokenNext == CallGetToken

TokenSpec == TokenInit /\ [][TokenNext]_vars

\* the walker of an input with nested brackets, math mode blocks and math
\* environments
NestedInit ==
    /\ s \in NestedInputs
    /\ tolerant_parsing \in BOOLEAN
    /\ strict_braces = FALSE
    /\ stack = <<>>
    /\ ret = <<>>
    /\ exc = <<>>
    /\ status = "idle"
    /\ call = NoCall

NestedNext ==
    \/ CallGetLatexNodes
    \/ CallGetLatexBracedGroup
    \/ DoRead
    \/ CatchInLoop
    \/ Propagate
    \/ ReturnToDoRead
    \/ ReturnToGroup
    \/ ReturnToEnvironment
    \/ ReturnToArgs
    \/ ReturnToExpression

NestedSpec == NestedInit /\ [][NestedNext]_vars

----------------------------------------------------------------------------
(* What the properties are stated with *)

\* the parse of the whole input: get_latex_nodes(pos=0)
NodesCalled == call.fn = "get_latex_nodes" /\ call.read_max_nodes = 0
ExpressionCalled == call.fn = "get_latex_expression"

\* a parse: a call of get_latex_nodes, whatever its read_max_nodes, or of
\* get_latex_expression
ParseCalled == call.fn \in {"get_latex_nodes", "get_latex_expression"}

TokenCalled == call.fn = "get_token"
SubContextCall == call.fn = "sub_context"
BracedGroupCalled == call.fn = "get_latex_braced_group"
OptionalArgCalled == call.fn = "get_latex_maybe_optional_arg"
EnvironmentCalled == call.fn = "get_latex_environment"

\* get_latex_nodes(pos, read_max_nodes=n) with n >= 1
ReadMaxCalled == call.fn = "get_latex_nodes" /\ call.read_max_nodes > 0

HasEnded == status \in {"returned", "raised"}

HasReturned == status = "returned"
HasRaised == status = "raised"

\* the nodes of a list of nodes and all the nodes below them: those of their
\* node lists and those of their arguments
RECURSIVE TreeNodes(_)
TreeNodes(nodelist) ==
    UNION { {nodelist[i]}
            \cup TreeNodes(nodelist[i].nodelist)
            \cup UNION { TreeNodes(nodelist[i].argd[k]) :
                         k \in 1..Len(nodelist[i].argd) }
            : i \in 1..Len(nodelist) }

\* the nodes of the tree the call returned
ReturnedNodes == TreeNodes(ret[1].nodelist)

\* the node lists get_latex_nodes calls returned for the tree the call
\* returned: the bodies of its groups, environments and math blocks
ReturnedBodies ==
    { n.nodelist : n \in { m \in ReturnedNodes :
                           m.type \in {"group", "environment", "math"} } }

\* the spans of the nodes of nodelist tile [p, q): the first one starts at p,
\* each next one where the one before it ends, the last one ends at q
RECURSIVE Tiles(_, _, _)
Tiles(nodelist, p, q) ==
    IF nodelist = <<>> THEN p = q
    ELSE /\ Head(nodelist).pos = p
         /\ Tiles(Tail(nodelist), p + Head(nodelist).len, q)

\* the nodes of nodelist are in source order and do not overlap
Ordered(nodelist) ==
    \A i \in 1..(Len(nodelist) - 1) :
        nodelist[i].pos + nodelist[i].len <= nodelist[i + 1].pos

\* the characters get_token makes char tokens of, space apart, at top level
PlainChars == {"a", "[", "]"}

IsPlainRun(str) == str # <<>> /\ \A k \in 1..Len(str) : str[k] \in PlainChars

\* str.endswith(suffix)
EndsWith(str, suffix) ==
    /\ Len(suffix) <= Len(str)
    /\ SubSeq(str, Len(str) - Len(suffix) + 1, Len(str)) = suffix

\* str is x + "\n\n" + y with x its first i characters, x and y plain runs
IsParagraphInput(str, i) ==
    /\ i >= 1
    /\ i + 3 <= Len(str)
    /\ IsPlainRun(SubSeq(str, 1, i))
    /\ str[i + 1] = NL
    /\ str[i + 2] = NL
    /\ IsPlainRun(SubSeq(str, i + 3, Len(str)))

\* str is an opening brace and then plain characters and spaces only: a
\* group whose closing brace is missing at the end of the input
IsUnclosedGroupInput(str) ==
    /\ str # <<>>
    /\ str[1] = "{"
    /\ \A k \in 2..Len(str) : str[k] \in PlainChars \cup {" "}

\* the token do_read of the get_latex_nodes call f reads
TokenOfFrame(f) ==
    GetToken(s, f.pos, f.stop_upon_closing_brace # <<"]">>, TRUE, f.in_math_mode)

\* tok is a closer that is not the one the get_latex_nodes call f stops at
UnmatchedCloser(f, tok) ==
    /\ tok.res = "tok"
    /\ \/ tok.tok = "brace_close" /\ tok.arg # f.stop_upon_closing_brace
       \/ tok.tok = "end_environment" /\ tok.arg # f.stop_upon_end_environment
       \/ /\ tok.tok \in {"mathmode_inline", "mathmode_display"}
          /\ tok.arg \in ClosingMathmodeDelimiters
          /\ tok.arg # f.stop_upon_closing_mathmode

\* do_read of the strict get_latex_nodes call on top of the stack is about
\* to read a token (no read_max_nodes, on which do_read may return before it
\* looks at what the token is)
StrictDoReadEnabled ==
    /\ status = "running" /\ ~InFlight
    /\ ~tolerant_parsing
    /\ Top(stack).fn = "get_latex_nodes"
    /\ Top(stack).read_max_nodes = 0

ClosingBraceOf(c) == IF c = "{" THEN "}" ELSE "]"

\* the span of the group node n starts with an opening delimiter and ends
\* with the closing delimiter that corresponds to it
GroupDelimited(n) ==
    /\ n.pos >= 0 /\ n.len >= 2 /\ n.pos + n.len <= Len(s)
    /\ Ch(s, n.pos) \in {"{", "["}
    /\ Ch(s, n.pos + n.len - 1) = ClosingBraceOf(Ch(s, n.pos))

\* a token of the type tok named name starts at pos and ends at end
EnvironmentTokenAt(type, name, pos, end) ==
    /\ GetToken(s, pos, TRUE, TRUE, FALSE).res = "tok"
    /\ GetToken(s, pos, TRUE, TRUE, FALSE).tok = type
    /\ GetToken(s, pos, TRUE, TRUE, FALSE).arg = name
    /\ GetToken(s, pos, TRUE, TRUE, FALSE).pos = pos
    /\ pos + GetToken(s, pos, TRUE, TRUE, FALSE).len = end

\* the span of the environment node n starts with \begin{name} and ends
\* with \end{name}, name being the node's
EnvironmentDelimited(n) ==
    /\ n.pos >= 0 /\ n.pos + n.len <= Len(s)
    /\ \E b \in n.pos..(n.pos + n.len) :
           EnvironmentTokenAt("begin_environment", n.chars, n.pos, b)
    /\ \E e \in n.pos..(n.pos + n.len) :
           EnvironmentTokenAt("end_environment", n.chars, e, n.pos + n.len)

\* strict_braces as the get_latex_expression call of the walker's caller
\* reads it: the call's argument or, without one, the walker's flag
CalledStrictBraces ==
    IF call.strict_braces # <<>> THEN call.strict_braces[1] ELSE strict_braces

\* the first token of the get_latex_expression call is a closing brace
ExpressionOnClosingBrace ==
    /\ ExpressionCalled
    /\ GetToken(s, 0, TRUE, FALSE, FALSE).res = "tok"
    /\ GetToken(s, 0, TRUE, FALSE, FALSE).tok = "brace_close"

----------------------------------------------------------------------------
(* Properties *)

\* C1: in tolerant mode every iteration of the loop of the top-level call
\* get_latex_nodes(pos=0) that recovers from a parse error, one that get_token
\* raised included, leaves the read position past the token the error is at:
\* the loop makes progress, so that the call returns
C1_RecoveryAdvancesPastToken ==
    [][ ( /\ status = "running" /\ exc # <<>>
          /\ NodesCalled /\ tolerant_parsing
          /\ Len(stack) = 1
          /\ exc[1].type = "LatexWalkerParseError" )
        => ( /\ Len(stack') = 1
             /\ exc' = <<>>
             /\ Top(stack').pos > exc[1].pos[1] )
      ]_vars

\* C2: in tolerant mode the len the top-level call get_latex_nodes(pos=0)
\* returns is the length of the input
C2_TolerantParseConsumesAll ==
    (NodesCalled /\ tolerant_parsing /\ HasReturned) => ret[1].len = Len(s)

\* C3: the chars of every chars node get_latex_nodes returned are the slice
\* s[pos : pos+len] of the input
C3_CharsAreSourceSlice ==
    (NodesCalled /\ HasReturned) =>
        \A n \in ReturnedNodes : n.type = "chars" => n.chars = LatexVerbatim(n)

\* C4: the spans of the nodes get_latex_nodes returned tile the range
\* [pos, pos+len) it returned; stated of the top-level call, which no closing
\* delimiter stops, in tolerant and in strict mode
C4_NodesTileReturnedRange ==
    (NodesCalled /\ HasReturned) =>
        Tiles(ret[1].nodelist, ret[1].pos, ret[1].pos + ret[1].len)

\* C5: in every node list a get_latex_nodes call returned (top level, body
\* of a group, of an environment, of a math block) each node ends before or
\* where the next one starts
C5_NodesInSourceOrder ==
    (NodesCalled /\ HasReturned) =>
        /\ Ordered(ret[1].nodelist)
        /\ \A body \in ReturnedBodies : Ordered(body)

C7_StrictSpansAreDelimited ==
    (ParseCalled /\ ~tolerant_parsing /\ HasReturned) =>
        \A n \in ReturnedNodes :
            /\ n.type = "group" => GroupDelimited(n)
            /\ n.type = "environment" => EnvironmentDelimited(n)

\* C7 happens: a strict parse returned an environment node with a group
\* node in its body
C7_Witness ==
    /\ ~tolerant_parsing /\ HasReturned /\ NodesCalled
    /\ \E n \in ReturnedNodes :
           /\ n.type = "environment"
           /\ \E g \in TreeNodes(n.nodelist) : g.type = "group"

\* C8, as the code has it: in strict mode, parsing a group whose closing
\* brace is missing at the end of the input raises LatexWalkerError, which is
\* no LatexWalkerParseError and has no position
C8_UnclosedGroupRaisesWalkerError ==
    (NodesCalled /\ ~tolerant_parsing /\ IsUnclosedGroupInput(s)
         /\ status \in {"returned", "raised"}) =>
        /\ HasRaised
        /\ exc[1] = LatexWalkerError
        /\ exc[1].pos = <<>>

\* C8 happens: the strict parse of {aa has raised
C8_Witness ==
    /\ NodesCalled /\ ~tolerant_parsing /\ IsUnclosedGroupInput(s)
    /\ s = <<"{", "a", "a">>
    /\ HasRaised

\* C8, as the claim has it: in strict mode, parsing a group whose closing
\* brace is missing at the end of the input raises LatexWalkerParseError at
\* the position of the opening brace
C8_UnclosedGroupRaisesParseError ==
    (NodesCalled /\ ~tolerant_parsing /\ IsUnclosedGroupInput(s)
         /\ status \in {"returned", "raised"}) =>
        /\ HasRaised
        /\ exc[1] = LatexWalkerParseError(0)

\* C9, as the code has it: get_latex_expression with strict_braces=True on
\* a closing brace raises a parse error at pos when tolerant_parsing is
\* False, and when tolerant_parsing is True it returns an empty chars node
\* of length 0 at the brace
C9_ClosingBraceRaisesInStrictModeOnly ==
    (ExpressionOnClosingBrace /\ CalledStrictBraces
         /\ status \in {"returned", "raised"}) =>
        IF tolerant_parsing
        THEN /\ HasReturned
             /\ ret[1].nodelist =
                    <<LatexCharsNode(<<>>, GetToken(s, 0, TRUE, FALSE, FALSE).pos, 0)>>
             /\ ret[1].len = 0
        ELSE /\ HasRaised
             /\ exc[1] = LatexWalkerParseError(0)

\* C9 happens: a tolerant walker's get_latex_expression(0, strict_braces=True)
\* has returned on a closing brace that follows whitespace
C9_Witness ==
    /\ ExpressionOnClosingBrace /\ call.strict_braces = <<TRUE>>
    /\ tolerant_parsing
    /\ HasReturned
    /\ ret[1].pos > 0

\* C9, as the claim has it: get_latex_expression with strict_braces=True on
\* a closing brace raises a parse error, whatever tolerant_parsing is
C9_ClosingBraceAlwaysRaises ==
    (ExpressionOnClosingBrace /\ CalledStrictBraces
         /\ status \in {"returned", "raised"}) =>
        /\ HasRaised
        /\ exc[1].type = "LatexWalkerParseError"

\* C10, as the code has it: for the input x + "\n\n" + y, x and y plain
\* runs, get_latex_nodes returns one node, a chars node at 0 whose chars start
\* with x and end with y: the paragraph break is no node of its own.  The
\* whole input is read.
C10_ParagraphBreakIsMerged ==
    \A i \in 1..Len(s) :
        (NodesCalled /\ HasReturned /\ IsParagraphInput(s, i)) =>
            /\ Len(ret[1].nodelist) = 1
            /\ ret[1].nodelist[1].type = "chars"
            /\ ret[1].nodelist[1].pos = 0
            /\ StartsWith(ret[1].nodelist[1].chars, SubSeq(s, 1, i), 0)
            /\ EndsWith(ret[1].nodelist[1].chars, SubSeq(s, i + 3, Len(s)))
            /\ ret[1].pos = 0
            /\ ret[1].len = Len(s)

\* C10 happens: get_latex_nodes has returned for an input x + "\n\n" + y
C10_Witness ==
    /\ NodesCalled /\ HasReturned
    /\ \E i \in 1..Len(s) : IsParagraphInput(s, i)

\* C10, as the claim has it: for the input x + "\n\n" + y get_latex_nodes
\* returns three nodes, chars x at [0, |x|), chars "\n\n" at [|x|, |x|+2) and
\* chars y at [|x|+2, |x|+2+|y|)
C10_ParagraphBreakIsItsOwnNode ==
    \A i \in 1..Len(s) :
        (NodesCalled /\ HasReturned /\ IsParagraphInput(s, i)) =>
            ret[1].nodelist =
                << LatexCharsNode(SubSeq(s, 1, i), 0, i),
                   LatexCharsNode(<<NL, NL>>, i, 2),
                   LatexCharsNode(SubSeq(s, i + 3, Len(s)), i + 2, Len(s) - i - 2) >>

----------------------------------------------------------------------------
(* Properties of get_token, of the primitives and of the loop *)

\* space has two newlines in a row
HasParagraphBreak(space) ==
    \E k \in 1..(Len(space) - 1) : space[k] = NL /\ space[k + 1] = NL

\* C11: the pre_space of every token get_token returned, at any position and
\* with any flags, has no two consecutive newlines
C11_PreSpaceHasNoParagraphBreak ==
    (TokenCalled /\ HasReturned) => ~HasParagraphBreak(ret[1].pre_space)

\* the token at the position of the call, as get_latex_expression reads it
\* (environments=False) and as do_read reads it (environments=True)
CalledTokenOfExpression == GetToken(s, call.pos, TRUE, FALSE, FALSE)
CalledTokenOfNodes == GetToken(s, call.pos, TRUE, TRUE, FALSE)

IsMacro(tok) == tok.res = "tok" /\ tok.tok = "macro"
IsSpecials(tok) == tok.res = "tok" /\ tok.tok = "specials"
IsEnd(tok) == IsMacro(tok) /\ tok.arg = <<"e", "n", "d">>

\* get_latex_expression has returned the node of the macro or specials tok
\* with nodeargd None and the length of the token
ReturnedWithoutArguments(tok) ==
    /\ HasReturned
    /\ ret[1].nodelist = <<MkNode(tok.tok, tok.arg, <<>>, <<>>, <<>>, tok.pos, tok.len)>>
    /\ ret[1].nodelist[1].argd = <<>>
    /\ ret[1].pos = tok.pos
    /\ ret[1].len = tok.len

\* do_read of the call get_latex_nodes(pos, read_max_nodes=n) is about to
\* read its first token
FirstReadOfReadMax ==
    /\ ReadMaxCalled
    /\ status = "running" /\ ~InFlight
    /\ Len(stack) = 1
    /\ Top(stack).pos = call.pos
    /\ Top(stack).nodelist = <<>>
    /\ Top(stack).lastchars = <<>>

\* do_read of the call of the walker's caller has called the argument parser
\* of a macro, or get_latex_environment, which calls that of an environment
ArgumentParserInvoked ==
    /\ stack # <<>>
    /\ stack[1].fn = "get_latex_nodes"
    /\ stack[1].wait \in {"macro", "environment"}

CalledTokenOfOptionalArg == GetToken(s, call.pos, FALSE, FALSE, FALSE)

IsOpeningBracket(tok) ==
    tok.res = "tok" /\ tok.tok = "brace_open" /\ tok.arg = <<"[">>

\* C13: get_latex_maybe_optional_arg(pos) returns None and raises nothing
\* whenever the next token at pos is not an opening bracket, also when only
\* whitespace or nothing is left of the input; when it is an opening bracket
\* what it returns is the group node that starts at the bracket
C13_NoOptionalArgReturnsNone ==
    (OptionalArgCalled /\ HasEnded) =>
        IF IsOpeningBracket(CalledTokenOfOptionalArg)
        THEN HasReturned =>
                 /\ ~ret[1].none
                 /\ ret[1].nodelist[1].type = "group"
                 /\ ret[1].nodelist[1].pos = CalledTokenOfOptionalArg.pos
        ELSE HasReturned /\ ret[1] = ReturnedNone

\* the token of the type type named name that ends at end starts at some
\* position from pos on
EnvironmentTokenEndsAt(type, name, pos, end) ==
    \E e \in pos..end : EnvironmentTokenAt(type, name, e, end)

\* C14: the environment node get_latex_environment(pos) returned starts at
\* the position of the \begin token, also when whitespace lies between pos
\* and the \begin, and ends, in strict mode at least, where the \end{name}
\* token of its name ends
C14_EnvironmentSpanStartsAtBegin ==
    (EnvironmentCalled /\ HasReturned) =>
        /\ ret[1].nodelist[1].type = "environment"
        /\ ret[1].nodelist[1].chars = CalledTokenOfNodes.arg
        /\ ret[1].nodelist[1].pos = CalledTokenOfNodes.pos
        /\ ~tolerant_parsing =>
               EnvironmentTokenEndsAt("end_environment", ret[1].nodelist[1].chars,
                   ret[1].nodelist[1].pos,
                   ret[1].nodelist[1].pos + ret[1].nodelist[1].len)

\* the get_latex_nodes call f has a stop condition
StopConditionActive(f) ==
    \/ f.stop_upon_closing_brace # <<>>
    \/ f.stop_upon_end_environment # <<>>
    \/ f.stop_upon_closing_mathmode # <<>>

\* the end of the stream was signalled in do_read of the strict
\* get_latex_nodes call on top of the stack
StrictEndOfStreamInLoop ==
    /\ status = "running"
    /\ exc = <<LatexWalkerEndOfStream>>
    /\ ~tolerant_parsing
    /\ Top(stack).fn = "get_latex_nodes"

\* C15: in strict mode, at the end of the stream, a get_latex_nodes call that
\* has a stop condition (a closing brace, an \end or a closing math mode
\* delimiter to stop at) raises an error to its caller, and one that has
\* none returns
C15_StrictEndOfStreamRaises ==
    [][ StrictEndOfStreamInLoop =>
            /\ stack' = Pop(stack)
            /\ IF StopConditionActive(Top(stack))
               THEN exc' # <<>> /\ ret' = <<>>
               ELSE exc' = <<>> /\ ret' # <<>>
      ]_vars

\* tok is a closing brace or an \end{name} that is not the one the
\* get_latex_nodes call f stops at
MismatchedCloser(f, tok) ==
    /\ tok.res = "tok"
    /\ \/ tok.tok = "brace_close" /\ tok.arg # f.stop_upon_closing_brace
       \/ tok.tok = "end_environment" /\ tok.arg # f.stop_upon_end_environment

\* do_read of the get_latex_nodes call f looks at what tok is: it has not
\* returned, read_max_nodes being reached, on the chars node it made of the
\* last chars or of the pre_space of tok
MeetsToken(f, tok) ==
    ~ ( /\ Len(f.lastchars) > 0 \/ Len(tok.pre_space) > 0
        /\ f.read_max_nodes # 0
        /\ Len(f.nodelist) + 1 >= f.read_max_nodes )

\* do_read of the tolerant get_latex_nodes call on top of the stack is about
\* to meet a mismatched closer
TolerantDoReadMeetsMismatchedCloser ==
    /\ status = "running" /\ ~InFlight
    /\ tolerant_parsing
    /\ Top(stack).fn = "get_latex_nodes"
    /\ MismatchedCloser(Top(stack), TokenOfFrame(Top(stack)))
    /\ MeetsToken(Top(stack), TokenOfFrame(Top(stack)))

\* the loop of the tolerant get_latex_nodes call on top of the stack is
\* about to handle the parse error do_read raised at a mismatched closer,
\* the read position being after the closer
MismatchedCloserCaught ==
    /\ status = "running" /\ exc # <<>>
    /\ tolerant_parsing
    /\ Top(stack).fn = "get_latex_nodes"
    /\ exc[1].type = "LatexWalkerParseError"
    /\ LET f   == Top(stack)
           tok == GetToken(s, exc[1].pos[1], f.stop_upon_closing_brace # <<"]">>,
                           TRUE, f.in_math_mode)
       IN  /\ MismatchedCloser(f, tok)
           /\ tok.pos = exc[1].pos[1]
           /\ f.pos = tok.pos + tok.len

\* C16: in tolerant mode, when do_read of a get_latex_nodes call meets a
\* closing brace or an \end{name} that is not the one the call stops at, it
\* raises a parse error at the closer, the read position being after the
\* closer, and the loop of that call ignores the error: the call does not
\* return, it keeps what it has read and reads on after the closer
C16_TolerantMismatchedCloserIsSkipped ==
    [][ /\ TolerantDoReadMeetsMismatchedCloser
           => /\ exc' = <<LatexWalkerParseError(TokenOfFrame(Top(stack)).pos)>>
              /\ ret' = <<>>
              /\ Len(stack') = Len(stack)
              /\ Top(stack').pos = TokenOfFrame(Top(stack)).pos
                                       + TokenOfFrame(Top(stack)).len
        /\ MismatchedCloserCaught
           => /\ exc' = <<>> /\ ret' = <<>>
              /\ status' = "running"
              /\ Len(stack') = Len(stack)
              /\ Top(stack').pos = Top(stack).pos
              /\ Top(stack').nodelist = Top(stack).nodelist
              /\ Top(stack').lastchars = Top(stack).lastchars
      ]_vars

\* C16 happens: the tolerant parse of '}a' has returned, having read the
\* char after the mismatched closing brace
C16_Witness ==
    /\ NodesCalled /\ tolerant_parsing /\ HasReturned
    /\ s = <<"}", "a">>
    /\ ret[1] = Returned(<<LatexCharsNode(<<"a">>, 1, 1)>>, 0, 2)

\* C16 as stated: in tolerant mode a get_latex_nodes call that met a
\* mismatched closer reads no further token and returns
C16_TolerantMismatchedCloserEndsCall ==
    [][ MismatchedCloserCaught
        => (exc' = <<>> /\ ret' # <<>> /\ stack' = Pop(stack)) ]_vars

\* C17: get_latex_expression consumes nothing on a closer. When the next
\* token is a closing brace and the walker is not both strict and with
\* strict_braces, or when it is \end in tolerant mode, the call returns an
\* empty chars node of length 0 at the token, with the token's position as
\* pos and 0 as len; on a closing brace in strict mode with strict_braces,
\* and on \end in strict mode, it raises a parse error
C17_ExpressionConsumesNothingOnCloser ==
    ( /\ ExpressionCalled /\ HasEnded
      /\ CalledTokenOfExpression.res = "tok"
      /\ \/ CalledTokenOfExpression.tok = "brace_close"
         \/ IsEnd(CalledTokenOfExpression) ) =>
        IF ~tolerant_parsing /\ (IsEnd(CalledTokenOfExpression) \/ CalledStrictBraces)
        THEN /\ HasRaised
             /\ exc[1].type = "LatexWalkerParseError"
        ELSE /\ HasReturned
             /\ ret[1] = Returned(
                    <<LatexCharsNode(<<>>, CalledTokenOfExpression.pos, 0)>>,
                    CalledTokenOfExpression.pos, 0)

\* C17 happens: a tolerant walker's get_latex_expression has returned on an
\* \end that follows whitespace
C17_Witness ==
    /\ ExpressionCalled /\ HasReturned
    /\ tolerant_parsing
    /\ IsEnd(CalledTokenOfExpression)
    /\ CalledTokenOfExpression.pos > call.pos

IsMathmode(tok) ==
    tok.res = "tok" /\ tok.tok \in {"mathmode_inline", "mathmode_display"}

\* C18: get_latex_expression, when the next token is a math mode delimiter
\* that starts with a backslash, returns a macro node whose macroname is the
\* delimiter without the backslash and, when it is $ or $$, a chars node with
\* the delimiter as chars; len is the length of the delimiter's token
C18_MathDelimiterIsMacroOrChars ==
    (ExpressionCalled /\ HasEnded /\ IsMathmode(CalledTokenOfExpression)) =>
        /\ HasReturned
        /\ ret[1].pos = CalledTokenOfExpression.pos
        /\ ret[1].len = CalledTokenOfExpression.len
        /\ Len(ret[1].nodelist) = 1
        /\ IF CalledTokenOfExpression.arg[1] = BS
           THEN /\ ret[1].nodelist[1].type = "macro"
                /\ ret[1].nodelist[1].chars = Tail(CalledTokenOfExpression.arg)
           ELSE ret[1].nodelist[1] =
                    LatexCharsNode(CalledTokenOfExpression.arg,
                                   CalledTokenOfExpression.pos,
                                   CalledTokenOfExpression.len)

\* the characters of str from pos up to p are whitespace without a
\* paragraph break: get_token(pos) reads its token at p
WhitespaceBefore(str, pos, p) ==
    /\ \A k \in pos..(p - 1) : isspace(Ch(str, k))
    /\ \A k \in pos..(p - 2) : ~(Ch(str, k) = NL /\ Ch(str, k + 1) = NL)

\* the macro at p of str is name: a backslash, the letters of name and no
\* letter after them
MacroAt(str, p, name) ==
    /\ p < Len(str)
    /\ Ch(str, p) = BS
    /\ StartsWith(str, name, p + 1)
    /\ p + 1 + Len(name) < Len(str) => ~isalpha(Ch(str, p + 1 + Len(name)))

\* from q up to e, str is optional whitespace and {name}, the characters of
\* name being of the class cls and the opening brace at b
BracedNameAt(str, q, b, e, cls) ==
    /\ b >= q /\ b + 3 <= e /\ e <= Len(str)
    /\ \A k \in q..(b - 1) : isspace(Ch(str, k))
    /\ Ch(str, b) = "{"
    /\ \A k \in (b + 1)..(e - 2) : Ch(str, k) \in cls
    /\ Ch(str, e - 1) = "}"

\* what get_token gave at the \begin or \end at p, q being the position
\* after the macro and cls the class of the characters of a name
EnvironmentTokenRuleAt(p, q, macro, cls) ==
    IF ~call.environments
    THEN /\ HasReturned
         /\ ret[1].tok = "macro" /\ ret[1].arg = macro /\ ret[1].pos = p
    ELSE IF \E b, e \in q..Len(s) : BracedNameAt(s, q, b, e, cls)
    THEN \E b, e \in q..Len(s) :
            /\ BracedNameAt(s, q, b, e, cls)
            /\ HasReturned
            /\ ret[1].tok = (IF macro = <<"e", "n", "d">>
                             THEN "end_environment" ELSE "begin_environment")
            /\ ret[1].arg = PySlice(s, b + 1, e - 1)
            /\ ret[1].pos = p
            /\ ret[1].len = e - p
    ELSE /\ HasRaised
         /\ exc[1] = LatexWalkerParseError(p)

\* what get_token gave, when the token it read is at a \begin or an \end
EnvironmentTokenRule(cls) ==
    \A p \in call.pos..Len(s) :
        \A macro \in {<<"b", "e", "g", "i", "n">>, <<"e", "n", "d">>} :
            (WhitespaceBefore(s, call.pos, p) /\ MacroAt(s, p, macro))
                => EnvironmentTokenRuleAt(p, p + 1 + Len(macro), macro, cls)

\* C19: get_token with environments=True, at a \begin or an \end, returns
\* a begin_environment or end_environment token exactly when optional
\* whitespace and {name} follow the macro, the name being one or more
\* letters, digits, underscores or stars, with the name as arg and a len
\* that reaches through the closing brace; for every other continuation it
\* raises a parse error at the backslash. With environments=False it
\* returns a macro token named begin or end
C19_EnvironmentTokenOfWordName ==
    (TokenCalled /\ HasEnded) => EnvironmentTokenRule(EnvNameChars)

\* C19 happens: get_token has returned the begin_environment token of a
\* \begin that follows whitespace, for a name with an underscore
C19_Witness ==
    /\ TokenCalled /\ HasReturned
    /\ call.environments
    /\ ret[1].tok = "begin_environment"
    /\ ret[1].arg = <<"a", "_">>
    /\ ret[1].pos > call.pos
    /\ ret[1].len = Len(s) - ret[1].pos

\* C19 as stated: the name is one or more letters or stars, and a name
\* with a digit or an underscore gives a parse error
C19_EnvironmentTokenOfLetterName ==
    (TokenCalled /\ HasEnded) => EnvironmentTokenRule(Alpha \cup {"*"})

\* the characters of str from a up to b are all of the set cs, and the
\* character at b, if any, is not: the run of cs at a is maximal
MaximalRun(str, a, b, cs) ==
    /\ a <= b /\ b <= Len(str)
    /\ \A k \in a..(b - 1) : Ch(str, k) \in cs
    /\ b < Len(str) => Ch(str, b) \notin cs

\* what get_token gave at the backslash at p that a letter follows: the
\* macro token of the letters up to n and of the whitespace up to e.
\* exceptbeginend: nothing is said of \begin and \end read with
\* environments=True
AlphaMacroTokenRuleAt(p, n, e, exceptbeginend) ==
    ( /\ MaximalRun(s, p + 1, n, Alpha)
      /\ MaximalRun(s, n, e, SpaceChars)
      /\ ~ ( /\ exceptbeginend
             /\ call.environments
             /\ PySlice(s, p + 1, n) \in {<<"b", "e", "g", "i", "n">>,
                                          <<"e", "n", "d">>} ) )
    => /\ HasReturned
       /\ ret[1] = LatexToken("macro", PySlice(s, p + 1, n), p, 1 + (n - p - 1) + (e - n),
                              PySlice(s, call.pos, p), PySlice(s, n, e))

\* what get_token gave at the backslash at p that a character follows which
\* is no letter and none of ( ) [ ]
NonAlphaMacroTokenRuleAt(p) ==
    /\ HasReturned
    /\ ret[1] = LatexToken("macro", <<Ch(s, p + 1)>>, p, 2,
                           PySlice(s, call.pos, p), <<>>)

\* what get_token gave, when the token it read is at a backslash that
\* another character follows
MacroTokenRule(exceptbeginend) ==
    \A p \in call.pos..(Len(s) - 2) :
        (WhitespaceBefore(s, call.pos, p) /\ Ch(s, p) = BS) =>
            IF isalpha(Ch(s, p + 1))
            THEN \A n, e \in (p + 2)..Len(s) :
                     AlphaMacroTokenRuleAt(p, n, e, exceptbeginend)
            ELSE Ch(s, p + 1) \notin {"(", ")", "[", "]"}
                     => NonAlphaMacroTokenRuleAt(p)

\* C20: get_token on a backslash followed by a letter, other than a \begin
\* or an \end read with environments=True, returns a macro token whose name
\* is the maximal run of letters and whose post_space is the maximal run of
\* whitespace after it, with len = 1 + |name| + |post_space|; on a backslash
\* followed by a character that is no letter and none of ( ) [ ] it returns
\* a macro token with that character as name, an empty post_space and len
\* 2, the whitespace after it being left unconsumed
C20_MacroTokenOfNameAndPostSpace ==
    (TokenCalled /\ HasEnded) => MacroTokenRule(TRUE)

\* C20 happens: get_token has returned the macro token of \a with the
\* space after it as post_space
C20_Witness ==
    /\ TokenCalled /\ HasReturned
    /\ s = <<BS, "a", " ">>
    /\ ret[1] = LatexToken("macro", <<"a">>, 0, 3, <<>>, <<" ">>)

\* C20 as stated: every backslash followed by a letter gives a macro token,
\* \begin and \end read with environments=True included
C20_EveryAlphaMacroIsAMacroToken ==
    (TokenCalled /\ HasEnded) => MacroTokenRule(FALSE)

\* the pairs of an opening math mode delimiter and its closing one
MathmodeDelimiterPairs ==
    { <<<<"$">>, <<"$">>>>, <<<<"$", "$">>, <<"$", "$">>>>,
      <<<<BS, "(">>, <<BS, ")">>>>, <<<<BS, "[">>, <<BS, "]">>>> }

\* the math node n has a pair of delimiters, its span starts with the
\* opening one, and its displaytype is inline exactly for $ and \(
MathNodeDelimited(n) ==
    /\ n.delimiters \in MathmodeDelimiterPairs
    /\ StartsWith(s, n.delimiters[1], n.pos)
    /\ DisplayType(n.delimiters) =
           (IF n.delimiters[1] \in {<<"$">>, <<BS, "(">>} THEN "inline" ELSE "display")

\* the get_latex_nodes call at i of the stack waits for the body of a math
\* mode block: the call it made is a get_latex_nodes call that stops at the
\* closing delimiter of the pair of the token it read, in math mode
MathBodyCall(i) ==
    /\ stack[i + 1].fn = "get_latex_nodes"
    /\ <<stack[i].tok.arg, stack[i + 1].stop_upon_closing_mathmode>>
           \in MathmodeDelimiterPairs
    /\ stack[i + 1].stop_upon_closing_brace = <<>>
    /\ stack[i + 1].stop_upon_end_environment = <<>>

\* do_read of the get_latex_nodes call on top of the stack is about to meet
\* the math mode delimiter it stops at
DoReadMeetsClosingMathmode ==
    /\ status = "running" /\ ~InFlight
    /\ Top(stack).fn = "get_latex_nodes"
    /\ Top(stack).stop_upon_closing_mathmode # <<>>
    /\ IsMathmode(TokenOfFrame(Top(stack)))
    /\ TokenOfFrame(Top(stack)).arg = Top(stack).stop_upon_closing_mathmode
    /\ MeetsToken(Top(stack), TokenOfFrame(Top(stack)))

\* the body of a math mode block has been returned to do_read of the
\* get_latex_nodes call on top of the stack
MathBodyReturned ==
    /\ status = "running" /\ ret # <<>>
    /\ Top(stack).fn = "get_latex_nodes"
    /\ Top(stack).wait = "math"

Overridden(self, kwargs, f) ==
    IF \E i \in 1..Len(kwargs) : kwargs[i][1] = f
    THEN kwargs[CHOOSE i \in 1..Len(kwargs) : kwargs[i][1] = f][2]
    ELSE self[f]

\* the call of sub_context has ended as it has to: with ValueError when a
\* keyword argument names no field, else with a new context that has the
\* values of the receiver's fields, those given overridden; the receiver is
\* as it was
SubContextEnded ==
    /\ call.self = call.self0
    /\ IF \E i \in 1..Len(call.kwargs) : call.kwargs[i][1] \notin ParsingContextFields
       THEN HasRaised /\ exc = <<ValueError>>
       ELSE /\ HasReturned
            /\ DOMAIN ret[1] = ParsingContextFields
            /\ \A f \in ParsingContextFields :
                   ret[1][f] = Overridden(call.self0, call.kwargs, f)

\* the calls that go on from one state to the next have their parsing
\* context unchanged: in_math_mode of the context each was passed
ContextsKept ==
    \A i \in 1..Len(stack) :
        ( /\ i <= Len(stack')
          /\ stack'[i].fn = stack[i].fn
          /\ "in_math_mode" \in DOMAIN stack[i] )
        => stack'[i].in_math_mode = stack[i].in_math_mode

\* C22: sub_context returns a new ParsingContext with the receiver's field
\* values, the given fields overridden, and leaves the receiver unchanged;
\* a keyword argument that names no field raises ValueError. No step of a
\* parser changes in_math_mode of the parsing context a call was passed
C22_SubContextIsACopy ==
    [][ /\ (SubContextCall /\ HasEnded)' => SubContextEnded'
        /\ ContextsKept
      ]_vars

\* C22 happens: sub_context(in_math_mode=True) on a context that is not in
\* math mode has returned a context in math mode, the receiver still being
\* out of math mode
C22_Witness ==
    /\ SubContextCall /\ HasReturned
    /\ call.self0 = ParsingContext(FALSE)
    /\ call.kwargs = <<<<"in_math_mode", TRUE>>>>
    /\ ret[1] = ParsingContext(TRUE)
    /\ call.self = ParsingContext(FALSE)

\* a parser was called: what it returns is a node list, a position and a
\* length
ParserCalled ==
    call.fn \in {"get_latex_nodes", "get_latex_expression", "get_latex_braced_group",
                 "get_latex_environment", "get_latex_maybe_optional_arg"}

\* the nodes the get_latex_nodes calls in progress have in their node lists
NodesInProgress ==
    UNION { TreeNodes(stack[i].nodelist) :
            i \in { j \in 1..Len(stack) : stack[j].fn = "get_latex_nodes" } }

\* the span of the node n lies in the input
SpanInBounds(n) == n.pos >= 0 /\ n.len >= 0 /\ n.pos + n.len <= Len(s)

\* C23: every node a parser produces, in either mode, has pos >= 0,
\* len >= 0 and pos + len <= len(s), and no node of the tree that the call
\* of the walker's caller returned ends after the returned pos + len
C23_SpansInBounds ==
    /\ \A n \in NodesInProgress : n.type # "none" => SpanInBounds(n)
    /\ (ParserCalled /\ HasReturned) =>
           \A n \in ReturnedNodes :
               n.type # "none" =>
                   /\ SpanInBounds(n)
                   /\ n.pos + n.len <= ret[1].pos + ret[1].len

\* C24: for every token get_token(pos) returns, pre_space is the source text
\* between pos and the token, s[pos:tok.pos], so that
\* tok.pos - len(tok.pre_space) = pos; tok.len >= 1 and the token ends in
\* the input: no character is both in pre_space and in the token's span
C24_PreSpaceIsTextBeforeToken ==
    (TokenCalled /\ HasReturned) =>
        /\ ret[1].pos >= call.pos
        /\ ret[1].pre_space = PySlice(s, call.pos, ret[1].pos)
        /\ ret[1].pos - Len(ret[1].pre_space) = call.pos
        /\ ret[1].len >= 1
        /\ ret[1].pos + ret[1].len <= Len(s)

\* the character at k of the input is in the span of a node of nodelist
CoveredBy(nodelist, k) ==
    \E i \in 1..Len(nodelist) :
        nodelist[i].pos <= k /\ k < nodelist[i].pos + nodelist[i].len

\* C25: in strict mode, when the top-level call get_latex_nodes(pos=0), which
\* has no stop condition, returns, no token it consumed is lost: every
\* character of [pos, pos+len) is in the span of a node of the returned
\* list, and the backslash of a macro is in the span of a macro node or of a
\* node that has a body
C25_NoConsumedTokenIsLost ==
    (NodesCalled /\ ~tolerant_parsing /\ HasReturned) =>
        \A k \in ret[1].pos..(ret[1].pos + ret[1].len - 1) :
            /\ CoveredBy(ret[1].nodelist, k)
            /\ IsMacro(GetToken(s, k, TRUE, TRUE, FALSE))
                   /\ GetToken(s, k, TRUE, TRUE, FALSE).pos = k
               => \E n \in ReturnedNodes :
                      /\ n.type # "chars"
                      /\ n.pos <= k /\ k < n.pos + n.len

\* the call get_latex_nodes(pos, read_max_nodes=n) of the walker's caller
\* returns in this step because n nodes were read: not at the end of the
\* stream
StopsOnReadMaxNodes ==
    /\ ReadMaxCalled
    /\ status = "running" /\ Len(stack) = 1
    /\ exc = <<>>
    /\ ret # <<>> \/ TokenOfFrame(Top(stack)).res = "tok"
    /\ status' = "returned"

\* the position at which the last node of nodelist ends
EndOfLastNode(nodelist) ==
    nodelist[Len(nodelist)].pos + nodelist[Len(nodelist)].len

\* C26: get_latex_nodes(pos, read_max_nodes=n) with n >= 1 never returns
\* more than n nodes, and when it stops because n nodes were read, the
\* returned pos + len is the end of the last node of the list, also when
\* that node is the chars node made of the pre_space of a token
C26_ReadMaxNodesStopsAtLastNode ==
    [][ /\ (ReadMaxCalled /\ HasReturned)'
           => Len(ret'[1].nodelist) <= call'.read_max_nodes
        /\ StopsOnReadMaxNodes
           => /\ Len(ret'[1].nodelist) = call.read_max_nodes
              /\ ret'[1].pos + ret'[1].len = EndOfLastNode(ret'[1].nodelist)
      ]_vars

\* str is a bracket group with a balanced pair of brackets nested in it,
\* such as [a[b]c]: the chars a and one pair [ ] between the outer brackets
IsNestedBracketGroup(str) ==
    /\ Len(str) >= 4
    /\ str[1] = "[" /\ str[Len(str)] = "]"
    /\ \E i, j \in 2..(Len(str) - 1) :
          /\ i < j
          /\ str[i] = "[" /\ str[j] = "]"
          /\ \A k \in 2..(Len(str) - 1) : k \notin {i, j} => str[k] = "a"

\* do_read of the strict get_latex_nodes call on top of the stack, which
\* stops at a closing bracket, is about to meet an opening bracket
StrictDoReadMeetsNestedBracket ==
    /\ StrictDoReadEnabled
    /\ Top(stack).stop_upon_closing_brace = <<"]">>
    /\ TokenOfFrame(Top(stack)).res = "tok"
    /\ TokenOfFrame(Top(stack)).tok = "brace_open"
    /\ TokenOfFrame(Top(stack)).arg = <<"[">>

\* C27: in strict mode get_latex_braced_group(0, brace_type='[') on a
\* bracket group that has a balanced pair of brackets nested in it returns
\* a group node that spans the input, from the outer [ through the outer ];
\* an opening bracket met in a get_latex_nodes call that stops at ] raises
\* no error
C27_NestedBracketsAreRead ==
    [][ /\ ( /\ BracedGroupCalled /\ call.brace_type = "[" /\ call.pos = 0
             /\ ~tolerant_parsing
             /\ IsNestedBracketGroup(s)
             /\ HasEnded )'
           => ( /\ HasReturned
                /\ Len(ret[1].nodelist) = 1
                /\ ret[1].nodelist[1].type = "group"
                /\ ret[1].nodelist[1].pos = 0
                /\ ret[1].nodelist[1].len = Len(s)
                /\ ret[1].pos = 0 /\ ret[1].len = Len(s) )'
        /\ StrictDoReadMeetsNestedBracket => exc' = <<>>
      ]_vars

\* the call at i of the stack is the get_latex_nodes call that reads the
\* body of a math mode block or of an environment whose specification has
\* is_math_mode
MathBodyFrame(i) ==
    /\ stack[i].fn = "get_latex_nodes"
    /\ \/ stack[i].stop_upon_closing_mathmode # <<>>
       \/ /\ stack[i].stop_upon_end_environment # <<>>
          /\ EnvironmentIsMathMode(stack[i].stop_upon_end_environment)

\* the call at j of the stack is such a call or was made, at any depth,
\* below one
InMathRegion(j) == \E i \in 1..j : MathBodyFrame(i)

\* C28: math mode is inherited on descent. Every call made while the body
\* of a math mode block or of a math environment is parsed, at any depth
\* below it (do_read and its get_token calls, the argument parsers, the
\* environments that are not math environments, the groups), has a parsing
\* context with in_math_mode = True, and every call outside such a body has
\* one with in_math_mode = False
C28_MathModeIsInherited ==
    \A j \in 1..Len(stack) :
        "in_math_mode" \in DOMAIN stack[j]
            => (stack[j].in_math_mode <=> InMathRegion(j))

\* C28 happens: the argument parser of a macro is called in math mode, in a
\* group in the body of a math environment
C28_Witness ==
    /\ status = "running"
    /\ Top(stack).fn = "parse_args"
    /\ Top(stack).in_math_mode
    /\ \E i, j \in 1..Len(stack) :
          /\ i < j
          /\ stack[i].fn = "get_latex_nodes" /\ stack[i].stop_upon_end_environment = <<"q">>
          /\ stack[j].fn = "get_latex_braced_group"

\* C29: a paragraph break that directly follows a comment line stays
\* observable. The post_space of a comment token is the newline that ends the
\* comment followed only by whitespace of the next line: it has no second
\* newline; and when that newline is followed by another newline, the
\* get_token call at tok.pos + tok.len returns the paragraph break, a char
\* token of arg "\n\n"
C29_ParagraphBreakAfterCommentIsObservable ==
    (TokenCalled /\ HasReturned /\ ret[1].tok = "comment") =>
        LET tok == ret[1]
            newline == tok.pos + Len(tok.arg) + 2
            next == GetToken(s, tok.pos + tok.len, call.brackets_are_chars,
                             call.environments, FALSE)
        IN  /\ \A i \in 2..Len(tok.post_space) : tok.post_space[i] # NL
            /\ (newline < Len(s) /\ s[newline] = NL /\ s[newline + 1] = NL)
                  => /\ next.res = "tok"
                     /\ next.tok = "char"
                     /\ next.arg = <<NL, NL>>

\* the call at i of the stack stk is a get_latex_expression call with a
\* strict_braces argument
Overrides(stk, i) ==
    stk[i].fn = "get_latex_expression" /\ stk[i].new_value # <<>>

\* the value the walker's strict_braces has for the call at k of the stack
\* stk (k = 0: for the walker's caller) once the calls above it have ended:
\* the value the lowest _PushPropOverride in force above k has saved or, when
\* there is none, the field sb itself
StrictBracesBelow(stk, sb, k) ==
    IF \E i \in (k + 1)..Len(stk) : Overrides(stk, i)
    THEN stk[CHOOSE i \in (k + 1)..Len(stk) :
                /\ Overrides(stk, i)
                /\ \A j \in (k + 1)..(i - 1) : ~Overrides(stk, j)].initval
    ELSE sb

\* the calls at 1..k of the stack are in flight before and after the step
StaysInFlight(k) == k <= Len(stack) /\ k <= Len(stack')

\* C30: get_latex_expression(pos, strict_braces=v) with v not None sets the
\* walker's strict_braces to v for the duration of the call only. Whatever a
\* step does above a call that stays in flight (calls made, returned from or
\* left by LatexWalkerEndOfStream or LatexWalkerParseError, nested
\* get_latex_expression calls of the argument parser included), the value
\* strict_braces has for that call is the one it had before: when a call
\* ends, the field is what it was before that call, and a call with
\* strict_braces=None changes it neither on entry nor on exit. For the
\* walker's caller, the field after the call is what it was before it
C30_StrictBracesIsRestored ==
    [][/\ \A k \in 0..Len(stack) :
             StaysInFlight(k) =>
                 StrictBracesBelow(stack', strict_braces', k)
                     = StrictBracesBelow(stack, strict_braces, k)
       /\ (status' \in {"returned", "raised"})
             => /\ stack' = <<>>
                /\ strict_braces' = StrictBracesBelow(stack, strict_braces, 0)
       /\ (\A i \in 1..Len(stack) : ~Overrides(stack, i))
          /\ (\A i \in 1..Len(stack') : ~Overrides(stack', i))
             => strict_braces' = strict_braces]_vars

\* C30 happens: a strict walker with strict_braces=False was asked
\* get_latex_expression(0, strict_braces=True) on '{\m{a}'; the argument of
\* \m was read by a nested get_latex_expression(strict_braces=False) that
\* returned, the end of the input then made the call raise, and
\* strict_braces is False again
C30_Witness ==
    /\ ExpressionCalled /\ call.strict_braces = <<TRUE>>
    /\ s = <<"{", BS, "m", "{", "a", "}">>
    /\ ~tolerant_parsing
    /\ status = "raised"
    /\ strict_braces = FALSE

============================================================================
